---- MODULE Spec2Model ----
(***************************************************************************)
(* Model of the weekly_report metrics engine: the ISO-week calendar        *)
(* (periods/calculator.py), the raw-data cache and its invalidation        *)
(* (cache/manager.py, metrics/table1.py, api/routes.py), the batch         *)
(* orchestrator (metrics/batch_calculator.py) and the ratio metrics        *)
(* (metrics/online_kpis.py, metrics/aov_new_customers_per_country.py).     *)
(*                                                                         *)
(* Strings are sequences of one-character strings, so that the regular     *)
(* expression match, int() and the f-string formatting are computed on     *)
(* the characters.  Dates are proleptic Gregorian ordinals, as in          *)
(* datetime.toordinal().                                                   *)
(***************************************************************************)
EXTENDS Integers, Sequences, FiniteSets, TLC

VARIABLES
    call,        \* the last invocation: [fn |-> name, arg |-> its argument]
    ret,         \* its outcome: [exc |-> "none" or the exception raised, val |-> the value returned]
    disk,        \* the source files under data/raw: [state, version, weekDirs]
    table1Cache, \* metrics/table1.py raw_data_cache.cache : directory -> [data, timestamp]
    managerCache,\* cache/manager.py raw_data_cache.cache : directory -> [data, timestamp]
    metricsFile, \* cache/metrics_cache.json : key -> [data, timestamp, base_week, periods]
    now,         \* the clock: hours for the raw-data caches, instants for the metrics cache
    inflight     \* the calls in progress in other threads: thread -> its local state

vars == <<call, ret, disk, table1Cache, managerCache, metricsFile, now, inflight>>

-----------------------------------------------------------------------------
(* Characters, int() and f-string formatting                               *)

Digits == <<"0", "1", "2", "3", "4", "5", "6", "7", "8", "9">>

DigitChar(i) == Digits[i + 1]

IsDigit(c) == \E i \in 1..10 : Digits[i] = c

DigitVal(c) == (CHOOSE i \in 1..10 : Digits[i] = c) - 1

\* int(s) for a string of decimal digits
RECURSIVE IntOf(_)
IntOf(s) ==
    IF s = <<>> THEN 0
    ELSE 10 * IntOf(SubSeq(s, 1, Len(s) - 1)) + DigitVal(s[Len(s)])

\* f"{n}" for n >= 0
RECURSIVE Str(_)
Str(n) ==
    IF n < 10 THEN <<DigitChar(n)>>
    ELSE Str(n \div 10) \o <<DigitChar(n % 10)>>

\* f"{n:02d}" and '%m', '%d' of strftime, for n >= 0
Pad2(n) == IF n < 10 THEN <<"0", DigitChar(n)>> ELSE Str(n)

\* '%Y' of strftime: the year on four digits
Pad4(n) ==
    IF n < 10 THEN <<"0", "0", "0">> \o Str(n)
    ELSE IF n < 100 THEN <<"0", "0">> \o Str(n)
    ELSE IF n < 1000 THEN <<"0">> \o Str(n)
    ELSE Str(n)

\* f"{year}-{week:02d}"
WeekLabel(year, week) == Str(year) \o <<"-">> \o Pad2(week)

-----------------------------------------------------------------------------
(* datetime: ordinals, weekday, timedelta, strftime                        *)

IsLeap(y) == y % 4 = 0 /\ (y % 100 # 0 \/ y % 400 = 0)

DaysBeforeYear(y) ==
    (y - 1) * 365 + ((y - 1) \div 4) - ((y - 1) \div 100) + ((y - 1) \div 400)

DaysInMonth(y, m) ==
    IF m = 2 THEN (IF IsLeap(y) THEN 29 ELSE 28)
    ELSE IF m \in {4, 6, 9, 11} THEN 30 ELSE 31

RECURSIVE DaysBeforeMonth(_, _)
DaysBeforeMonth(y, m) ==
    IF m = 1 THEN 0 ELSE DaysBeforeMonth(y, m - 1) + DaysInMonth(y, m - 1)

\* datetime(y, m, d).toordinal()
ToOrdinal(y, m, d) == DaysBeforeYear(y) + DaysBeforeMonth(y, m) + d

\* datetime.weekday(): Monday = 0 ... Sunday = 6
Weekday(ord) == (ord + 6) % 7

YearOfOrdinal(ord) ==
    CHOOSE y \in (ord \div 366)..((ord \div 365) + 1) :
        DaysBeforeYear(y) < ord /\ ord <= DaysBeforeYear(y + 1)

\* datetime.fromordinal(ord) as <<year, month, day>>
FromOrdinal(ord) ==
    LET y == YearOfOrdinal(ord)
        doy == ord - DaysBeforeYear(y)
        m == CHOOSE k \in 1..12 :
                 DaysBeforeMonth(y, k) < doy /\ doy <= DaysBeforeMonth(y, k) + DaysInMonth(y, k)
    IN <<y, m, doy - DaysBeforeMonth(y, m)>>

\* strftime('%Y-%m-%d')
FormatDate(ord) ==
    LET ymd == FromOrdinal(ord)
    IN Pad4(ymd[1]) \o <<"-">> \o Pad2(ymd[2]) \o <<"-">> \o Pad2(ymd[3])

\* strftime('%b')
MonthAbbr ==
    << <<"J", "a", "n">>, <<"F", "e", "b">>, <<"M", "a", "r">>, <<"A", "p", "r">>,
       <<"M", "a", "y">>, <<"J", "u", "n">>, <<"J", "u", "l">>, <<"A", "u", "g">>,
       <<"S", "e", "p">>, <<"O", "c", "t">>, <<"N", "o", "v">>, <<"D", "e", "c">> >>

\* strftime('%b %d')
FormatDisplay(ord) ==
    LET ymd == FromOrdinal(ord)
    IN MonthAbbr[ymd[2]] \o <<" ">> \o Pad2(ymd[3])

\* date.isocalendar() as <<ISO year, ISO week>>
IsoCalendar(ord) ==
    LET thursday == ord - Weekday(ord) + 3
        y == YearOfOrdinal(thursday)
    IN <<y, ((thursday - DaysBeforeYear(y) - 1) \div 7) + 1>>

-----------------------------------------------------------------------------
(* Outcomes of a call                                                      *)

Returns(v) == [exc |-> "none", val |-> v]

Raises(e) == [exc |-> e, val |-> <<>>]

-----------------------------------------------------------------------------
(* periods/calculator.py                                                   *)

\* re.match(r'(\d{4})-(\d{1,2})', s): anchored at the start only
ReMatch(s) ==
    /\ Len(s) >= 6
    /\ \A i \in 1..4 : IsDigit(s[i])
    /\ s[5] = "-"
    /\ IsDigit(s[6])

\* int(match.group(1))
MatchYear(s) == IntOf(SubSeq(s, 1, 4))

\* int(match.group(2)): \d{1,2} is greedy
MatchWeek(s) ==
    IF Len(s) >= 7 /\ IsDigit(s[7]) THEN IntOf(SubSeq(s, 6, 7)) ELSE IntOf(SubSeq(s, 6, 6))

_has_53_weeks(year) == Weekday(ToOrdinal(year, 1, 4)) >= 3

_get_previous_week(year, week) ==
    IF week > 1 THEN WeekLabel(year, week - 1)
    ELSE IF _has_53_weeks(year - 1) THEN Str(year - 1) \o <<"-", "5", "3">>
         ELSE Str(year - 1) \o <<"-", "5", "2">>

\* a variant that anchors the first week on January 1 instead of January 4
get_week_date_range_Jan1(iso_week) ==
    IF ~ReMatch(iso_week) THEN Raises("ValueError")
    ELSE LET year == MatchYear(iso_week)
             week == MatchWeek(iso_week)
             jan_1 == ToOrdinal(year, 1, 1)
             first_monday == jan_1 - Weekday(jan_1)
             target_monday == first_monday + 7 * (week - 1)
             target_sunday == target_monday + 6
         IN Returns([start |-> FormatDate(target_monday), end |-> FormatDate(target_sunday),
                     display |-> FormatDisplay(target_monday) \o <<" ", "-", " ">>
                                     \o FormatDisplay(target_sunday)])

get_week_date_range(iso_week) ==
    IF ~ReMatch(iso_week) THEN Raises("ValueError")
    ELSE LET year == MatchYear(iso_week)
             week == MatchWeek(iso_week)
             jan_4 == ToOrdinal(year, 1, 4)
             first_monday == jan_4 - Weekday(jan_4)
             target_monday == first_monday + 7 * (week - 1)
             target_sunday == target_monday + 6
         IN Returns([start |-> FormatDate(target_monday), end |-> FormatDate(target_sunday),
                     display |-> FormatDisplay(target_monday) \o <<" ", "-", " ">>
                                     \o FormatDisplay(target_sunday)])

\* a variant whose last_year entry keeps the year of the requested week
get_periods_for_week_SameYear(iso_week) ==
    IF ~ReMatch(iso_week) THEN Raises("ValueError")
    ELSE LET year == MatchYear(iso_week)
             week == MatchWeek(iso_week)
         IN IF week < 1 \/ week > 53 THEN Raises("ValueError")
            ELSE Returns([actual |-> iso_week,
                          last_week |-> _get_previous_week(year, week),
                          last_year |-> WeekLabel(year, week),
                          year_2023 |-> <<"2", "0", "2", "3", "-">> \o Pad2(week)])

get_periods_for_week(iso_week) ==
    IF ~ReMatch(iso_week) THEN Raises("ValueError")
    ELSE LET year == MatchYear(iso_week)
             week == MatchWeek(iso_week)
         IN IF week < 1 \/ week > 53 THEN Raises("ValueError")
            ELSE Returns([actual |-> iso_week,
                          last_week |-> _get_previous_week(year, week),
                          last_year |-> WeekLabel(year - 1, week),
                          year_2023 |-> <<"2", "0", "2", "3", "-">> \o Pad2(week)])

validate_iso_week(iso_week) ==
    IF ~ReMatch(iso_week) THEN Returns(FALSE)
    ELSE LET year == MatchYear(iso_week)
             week == MatchWeek(iso_week)
         IN IF year < 2000 \/ year > 2100 THEN Returns(FALSE)
            ELSE IF week < 1 \/ week > 53 THEN Returns(FALSE)
            ELSE IF week = 53 /\ ~_has_53_weeks(year) THEN Returns(FALSE)
            ELSE Returns(TRUE)

get_ytd_periods_for_week(iso_week) ==
    IF ~ReMatch(iso_week) THEN Raises("ValueError")
    ELSE LET year == MatchYear(iso_week)
             week == MatchWeek(iso_week)
             week_end == get_week_date_range(iso_week).val.end
             week_end_last_year == get_week_date_range(WeekLabel(year - 1, week)).val.end
             week_end_2023 == get_week_date_range(<<"2", "0", "2", "3", "-">> \o Pad2(week)).val.end
         IN Returns([ytd_actual |-> [start |-> Str(year) \o <<"-", "0", "4", "-", "0", "1">>,
                                     end |-> week_end],
                     ytd_last_year |-> [start |-> Str(year - 1) \o <<"-", "0", "4", "-", "0", "1">>,
                                        end |-> week_end_last_year],
                     ytd_2023 |-> [start |-> <<"2", "0", "2", "3", "-", "0", "4", "-", "0", "1">>,
                                   end |-> week_end_2023]])

-----------------------------------------------------------------------------
(* cache/manager.py: RawDataCache.  A cache is the dict self.cache, a      *)
(* function from the directory keys it holds to [data, timestamp].         *)

EmptyCache == [k \in {} |-> [data |-> 0, timestamp |-> 0]]

\* a variant of get that still serves an entry whose age equals max_age
RawDataCache_get_Inclusive(cache, data_path, max_age, t) ==
    IF data_path \in DOMAIN cache
    THEN IF t - cache[data_path].timestamp <= max_age
         THEN [hit |-> TRUE, data |-> cache[data_path].data, cache |-> cache]
         ELSE [hit |-> FALSE, data |-> 0,
               cache |-> [k \in DOMAIN cache \ {data_path} |-> cache[k]]]
    ELSE [hit |-> FALSE, data |-> 0, cache |-> cache]

\* RawDataCache.get: the value returned (hit) and the dict afterwards
RawDataCache_get(cache, data_path, max_age, t) ==
    IF data_path \in DOMAIN cache
    THEN IF t - cache[data_path].timestamp < max_age
         THEN [hit |-> TRUE, data |-> cache[data_path].data, cache |-> cache]
         ELSE [hit |-> FALSE, data |-> 0,
               cache |-> [k \in DOMAIN cache \ {data_path} |-> cache[k]]]
    ELSE [hit |-> FALSE, data |-> 0, cache |-> cache]

\* RawDataCache.set
RawDataCache_set(cache, data_path, data, t) ==
    [k \in DOMAIN cache \cup {data_path} |->
        IF k = data_path THEN [data |-> data, timestamp |-> t] ELSE cache[k]]

\* RawDataCache.clear
RawDataCache_clear(cache) == EmptyCache

\* RawDataCache(max_age_hours=2) of metrics/table1.py
Table1MaxAgeHours == 2

-----------------------------------------------------------------------------
(* cache/manager.py: MetricsCache.  The cache file is the JSON object it   *)
(* holds, a function from keys to [data, timestamp, base_week, periods];   *)
(* a missing file reads as the empty object.  The clock counts instants,   *)
(* InstantsPerMinute of them to a minute; timestamps are instants, whose   *)
(* order is the order of their isoformat() strings.  The md5 digest of the *)
(* key data is taken as injective.                                         *)

InstantsPerMinute == 2

\* timedelta(hours=1), in minutes
MetricsMaxAgeMinutes == 60

\* the entries kept by set
MetricsMaxEntries == 10

None == "None"

EmptyMetricsFile == [k \in {} |-> [data |-> None, timestamp |-> 0, base_week |-> <<>>, periods |-> <<>>]]

\* the period names in the order sorted() gives them
PeriodNames == <<"actual", "last_week", "last_year", "year_2023">>

\* sorted(periods)
RECURSIVE SortedFrom(_, _)
SortedFrom(periods, i) ==
    IF i > Len(PeriodNames) THEN <<>>
    ELSE LET is(p) == p = PeriodNames[i]
         IN SelectSeq(periods, is) \o SortedFrom(periods, i + 1)

Sorted(periods) == SortedFrom(periods, 1)

\* MetricsCache._get_cache_key: base week, sorted periods and the current minute
_get_cache_key(base_week, periods, t) ==
    [base_week |-> base_week, periods |-> Sorted(periods), timestamp |-> t \div InstantsPerMinute]

\* MetricsCache.get: the data returned, None on a miss
MetricsCache_get(file, base_week, periods, t) ==
    LET cache_key == _get_cache_key(base_week, periods, t)
    IN IF cache_key \notin DOMAIN file THEN None
       ELSE IF t - file[cache_key].timestamp > MetricsMaxAgeMinutes * InstantsPerMinute THEN None
       ELSE file[cache_key].data

\* a variant of set that keeps the oldest entries instead of the newest
MetricsCache_set_KeepOldest(file, base_week, periods, data, t) ==
    LET cache_key == _get_cache_key(base_week, periods, t)
        entry == [data |-> data, timestamp |-> t, base_week |-> base_week, periods |-> periods]
        cache_data == [k \in DOMAIN file \cup {cache_key} |->
                          IF k = cache_key THEN entry ELSE file[k]]
        older(k) == {j \in DOMAIN cache_data : cache_data[j].timestamp < cache_data[k].timestamp}
    IN IF Cardinality(DOMAIN cache_data) > MetricsMaxEntries
       THEN [k \in {j \in DOMAIN cache_data : Cardinality(older(j)) < MetricsMaxEntries} |->
                cache_data[k]]
       ELSE cache_data

\* MetricsCache.set: the file afterwards.  Timestamps of distinct entries differ,
\* so the MetricsMaxEntries first of the descending sort are the entries with
\* fewer than MetricsMaxEntries newer ones.
MetricsCache_set(file, base_week, periods, data, t) ==
    LET cache_key == _get_cache_key(base_week, periods, t)
        entry == [data |-> data, timestamp |-> t, base_week |-> base_week, periods |-> periods]
        cache_data == [k \in DOMAIN file \cup {cache_key} |->
                          IF k = cache_key THEN entry ELSE file[k]]
        newer(k) == {j \in DOMAIN cache_data : cache_data[j].timestamp > cache_data[k].timestamp}
    IN IF Cardinality(DOMAIN cache_data) > MetricsMaxEntries
       THEN [k \in {j \in DOMAIN cache_data : Cardinality(newer(j)) < MetricsMaxEntries} |->
                cache_data[k]]
       ELSE cache_data

\* MetricsCache.clear
MetricsCache_clear(file) == EmptyMetricsFile

\* MetricsCache.invalidate
MetricsCache_invalidate(file, base_week) ==
    [k \in {j \in DOMAIN file : file[j].base_week # base_week} |-> file[k]]

-----------------------------------------------------------------------------
(* Directories and the source loader (adapters/*.py load_data).  The       *)
(* sources live in data/raw/<kind>; a week directory data/raw/<week> holds *)
(* no sources of its own, so the loader falls back to its parent.  The     *)
(* data root itself and its parent hold no sources.                        *)

RawDir == [dir |-> "raw", week |-> <<>>]

WeekDir(week) == [dir |-> "week", week |-> week]

\* Path.exists() of a directory handed to a calculator
DirExists(path, d) ==
    IF path.dir = "raw" THEN d.state # "absent"
    ELSE d.state # "absent" /\ d.weekDirs

\* qlik/dema/dema_gm2 load_data(path): the bundle parsed from disk, or the error raised
LoadSources(path, d) ==
    IF path.dir = "root" \/ d.state \in {"absent", "missing"} THEN [exc |-> "FileNotFoundError", data |-> 0]
    ELSE IF d.state = "corrupt" THEN [exc |-> "ParseError", data |-> 0]
    ELSE [exc |-> "none", data |-> d.version]

\* metrics/table1.py load_all_raw_data: outcome, bundle, cache afterwards and
\* what the loader did ("hit", "parsed" or the error it raised)
load_all_raw_data(data_path, cache, d, t) ==
    LET cached == RawDataCache_get(cache, data_path, Table1MaxAgeHours, t)
        loaded == LoadSources(data_path, d)
    IN IF cached.hit
       THEN [exc |-> "none", data |-> cached.data, cache |-> cached.cache, load |-> "hit"]
       ELSE IF loaded.exc # "none"
       THEN [exc |-> loaded.exc, data |-> 0, cache |-> cached.cache, load |-> loaded.exc]
       ELSE [exc |-> "none", data |-> loaded.data,
             cache |-> RawDataCache_set(cached.cache, data_path, loaded.data, t),
             load |-> "parsed"]

-----------------------------------------------------------------------------
(* Metric calculators.  A calculator's outcome is                          *)
(*   [exc, val, cache, load]: the exception that escapes it ("none" if it  *)
(* returns), the value returned, table1's cache afterwards, and what its   *)
(* raw-data load did ("skipped", "hit", "parsed" or the loader's error).   *)
(* A per-week result is abstracted to the week and the bundle it was       *)
(* computed from.  fails = a week's computation hits a missing column      *)
(* (KeyError).                                                             *)

WeekResult(week, data) == [week |-> week, bundle |-> data]

\* metrics/online_kpis.py
calculate_online_kpis_for_weeks(base_week, cache, d, t, fails) ==
    LET latest_data_path == RawDir
        r == load_all_raw_data(latest_data_path, cache, d, t)
        exists == DirExists(latest_data_path, d)
        loaded == exists /\ r.exc = "none"
        cache1 == IF exists THEN r.cache ELSE cache
        load == IF exists THEN r.load ELSE "skipped"
    IN IF loaded /\ fails
       THEN [exc |-> "KeyError", val |-> <<>>, cache |-> cache1, load |-> load]
       ELSE [exc |-> "none",
             val |-> [kpis |-> IF loaded THEN <<WeekResult(base_week, r.data)>> ELSE <<>>,
                      latest_week |-> base_week],
             cache |-> cache1, load |-> load]

\* metrics/contribution.py
calculate_contribution_for_weeks(base_week, cache, d, t, fails) ==
    LET latest_data_path == WeekDir(base_week)
        r == load_all_raw_data(latest_data_path, cache, d, t)
        exists == DirExists(latest_data_path, d)
        loaded == exists /\ r.exc = "none"
        cache1 == IF exists THEN r.cache ELSE cache
        load == IF exists THEN r.load ELSE "skipped"
    IN IF loaded /\ fails
       THEN [exc |-> "KeyError", val |-> <<>>, cache |-> cache1, load |-> load]
       ELSE [exc |-> "none",
             val |-> [contributions |-> IF loaded THEN <<WeekResult(base_week, r.data)>> ELSE <<>>,
                      latest_week |-> base_week],
             cache |-> cache1, load |-> load]

\* metrics/aov_new_customers_per_country.py and its per-country siblings:
\* the load is outside any try, a week's failure is caught and the week skipped
calculate_aov_new_customers_per_country_for_weeks(base_week, data_root, cache, d, t, fails) ==
    LET r == load_all_raw_data(data_root, cache, d, t)
    IN IF r.exc # "none"
       THEN [exc |-> r.exc, val |-> <<>>, cache |-> r.cache, load |-> r.load]
       ELSE [exc |-> "none",
             val |-> IF fails THEN <<>> ELSE <<WeekResult(base_week, r.data)>>,
             cache |-> r.cache, load |-> r.load]

\* the zero metrics of a period whose computation failed
ZeroMetrics == [week |-> <<>>, bundle |-> 0]

\* metrics/table1.py calculate_table1_for_periods: always reads data/raw/2025-42
calculate_table1_for_periods(periods, cache, d, t, fails) ==
    LET latest_data_path == WeekDir(<<"2", "0", "2", "5", "-", "4", "2">>)
        r == load_all_raw_data(latest_data_path, cache, d, t)
    IN IF r.exc # "none"
       THEN [exc |-> r.exc, val |-> <<>>, cache |-> r.cache, load |-> r.load]
       ELSE [exc |-> "none",
             val |-> [p \in DOMAIN periods |->
                         IF fails THEN ZeroMetrics ELSE WeekResult(periods[p], r.data)],
             cache |-> r.cache, load |-> r.load]

\* metrics/markets.py: the weeks analysed, newest first, before the reversal
RECURSIVE MarketsWeeks(_, _, _)
MarketsWeeks(year, week, num_weeks) ==
    IF num_weeks = 0 THEN <<>>
    ELSE LET i == num_weeks - 1
             week_num == week - i
             label == IF week_num < 1
                      THEN WeekLabel(year - 1,
                               (IF _has_53_weeks(year - 1) THEN 53 ELSE 52) + week_num)
                      ELSE WeekLabel(year, week_num)
         IN MarketsWeeks(year, week, num_weeks - 1) \o <<label>>

\* metrics/markets.py calculate_top_markets_for_weeks: reads data/raw/<oldest week>
calculate_top_markets_for_weeks(base_week, num_weeks, cache, d, t, fails) ==
    LET weeks == MarketsWeeks(MatchYear(base_week), MatchWeek(base_week), num_weeks)
        oldest == weeks[Len(weeks)]
        r == load_all_raw_data(WeekDir(oldest), cache, d, t)
    IN IF r.exc # "none"
       THEN [exc |-> r.exc, val |-> <<>>, cache |-> r.cache, load |-> r.load]
       ELSE [exc |-> "none",
             val |-> [markets |-> IF fails THEN <<>> ELSE <<WeekResult(base_week, r.data)>>,
                      latest_week |-> base_week],
             cache |-> r.cache, load |-> r.load]

-----------------------------------------------------------------------------
(* metrics/batch_calculator.py                                             *)

\* the slots of the bundle, in the order their calculators are invoked
Families ==
    << "metrics", "markets", "kpis", "contribution", "gender_sales", "men_category_sales",
       "women_category_sales", "category_sales", "products_new", "products_gender",
       "sessions_per_country", "conversion_per_country", "new_customers_per_country",
       "returning_customers_per_country", "aov_new_customers_per_country",
       "aov_returning_customers_per_country", "marketing_spend_per_country",
       "ncac_per_country", "contribution_new_per_country",
       "contribution_new_total_per_country", "contribution_returning_per_country",
       "contribution_returning_total_per_country", "total_contribution_per_country" >>

FamilySet == {Families[i] : i \in 1..Len(Families)}

\* the empty default every slot is created with
EmptySlot == [empty |-> TRUE]

RootDir == [dir |-> "root", week |-> <<>>]

\* one step of calculate_all_metrics: the call of family f's calculator with
\* (base_week, num_weeks, data_root).  gender_sales takes two parameters and
\* top_products_by_gender requires a fourth: both calls raise TypeError.
FamilyCall(f, base_week, num_weeks, periods, cache, d, t, failing) ==
    IF f = "metrics" THEN calculate_table1_for_periods(periods, cache, d, t, failing = f)
    ELSE IF f = "markets"
    THEN calculate_top_markets_for_weeks(base_week, num_weeks, cache, d, t, failing = f)
    ELSE IF f = "kpis" THEN calculate_online_kpis_for_weeks(base_week, cache, d, t, failing = f)
    ELSE IF f = "contribution"
    THEN calculate_contribution_for_weeks(base_week, cache, d, t, failing = f)
    ELSE IF f \in {"gender_sales", "products_gender"}
    THEN [exc |-> "TypeError", val |-> <<>>, cache |-> cache, load |-> "skipped"]
    ELSE calculate_aov_new_customers_per_country_for_weeks(
             base_week, RootDir, cache, d, t, failing = f)

\* the families from the i-th on, run in order until one raises
RECURSIVE RunFamilies(_, _, _, _, _, _, _, _, _)
RunFamilies(i, results, base_week, num_weeks, cache, d, t, failing, load) ==
    IF i > Len(Families)
    THEN [exc |-> "none", val |-> results, cache |-> cache, load |-> load]
    ELSE LET f == Families[i]
             r == FamilyCall(f, base_week, num_weeks, results.periods, cache, d, t, failing)
         IN IF r.exc # "none"
            THEN [exc |-> r.exc, val |-> <<>>, cache |-> r.cache, load |-> load]
            ELSE RunFamilies(i + 1, [results EXCEPT ![f] = r.val], base_week, num_weeks,
                             r.cache, d, t, failing, IF i = 1 THEN r.load ELSE load)

\* calculate_all_metrics; load tells what the first raw-data load of the batch did
calculate_all_metrics(base_week, num_weeks, cache, d, t, failing) ==
    LET periods == get_periods_for_week(base_week)
        results == [k \in FamilySet \cup {"periods"} |->
                       IF k = "periods" THEN periods.val ELSE EmptySlot]
        first == calculate_table1_for_periods(periods.val, cache, d, t, failing = "metrics")
    IN IF periods.exc # "none"
       THEN [exc |-> periods.exc, val |-> <<>>, cache |-> cache, load |-> "skipped"]
       ELSE IF first.exc # "none"
       THEN [exc |-> first.exc, val |-> <<>>, cache |-> first.cache, load |-> first.load]
       ELSE RunFamilies(1, results, base_week, num_weeks, cache, d, t, failing, first.load)

-----------------------------------------------------------------------------
(* Inputs of the calendar functions                                        *)

MinYear == 2000

MaxYear == 2100

Years == (MinYear - 1)..(MaxYear + 1)

\* one or two decimal digits: "0".."9", "00".."99"
WeekTexts ==
    {<<DigitChar(a)>> : a \in 0..9} \cup {<<DigitChar(a), DigitChar(b)>> : a \in 0..9, b \in 0..9}

\* what may follow the week digits in a request string
Suffixes == {<<>>, <<"x">>, <<"7">>}

MalformedInputs ==
    { <<>>,
      <<"2", "0", "2", "5">>,
      <<"2", "0", "2", "5", "-">>,
      <<"2", "0", "2", "-", "4", "2">>,
      <<"2", "0", "2", "5", "/", "4", "2">>,
      <<"2", "0", "2", "5", "4", "2">>,
      <<"x", "2", "0", "2", "5", "-", "4", "2">>,
      <<"2", "0", "2", "5", "-", "W", "4", "2">>,
      <<"-", "4", "2">> }

IsoWeekInputs ==
    {Str(y) \o <<"-">> \o w \o t : y \in Years, w \in WeekTexts, t \in Suffixes}
        \cup MalformedInputs

-----------------------------------------------------------------------------
(* State and actions of the calendar checks: the initial state draws the  *)
(* argument, one action per function applies the function to it            *)

CalendarInputs ==
    {[kind |-> "text", year |-> 0, week |-> 0, text |-> s] : s \in IsoWeekInputs}
        \cup {[kind |-> "year", year |-> y, week |-> 0, text |-> <<>>] : y \in Years}
        \cup {[kind |-> "week", year |-> y, week |-> w, text |-> <<>>] : y \in Years, w \in 1..53}

InitCalendar ==
    /\ call \in {[fn |-> "none", arg |-> i] : i \in CalendarInputs}
    /\ ret = Returns(<<>>)
    /\ disk = [state |-> "ok", version |-> 0, weekDirs |-> FALSE]
    /\ table1Cache = EmptyCache
    /\ managerCache = EmptyCache
    /\ metricsFile = EmptyMetricsFile
    /\ now = 0
    /\ inflight = <<>>

Invoke(fn, arg, outcome) ==
    /\ call' = [fn |-> fn, arg |-> arg]
    /\ ret' = outcome

CallHas53Weeks ==
    /\ call.fn = "none" /\ call.arg.kind = "year"
    /\ Invoke("_has_53_weeks", call.arg.year, Returns(_has_53_weeks(call.arg.year)))
    /\ UNCHANGED <<disk, table1Cache, managerCache, metricsFile, now, inflight>>

CallGetPreviousWeek ==
    /\ call.fn = "none" /\ call.arg.kind = "week"
    /\ Invoke("_get_previous_week", <<call.arg.year, call.arg.week>>,
              Returns(_get_previous_week(call.arg.year, call.arg.week)))
    /\ UNCHANGED <<disk, table1Cache, managerCache, metricsFile, now, inflight>>

CallGetWeekDateRange ==
    /\ call.fn = "none" /\ call.arg.kind = "text"
    /\ Invoke("get_week_date_range", call.arg.text, get_week_date_range(call.arg.text))
    /\ UNCHANGED <<disk, table1Cache, managerCache, metricsFile, now, inflight>>

CallGetPeriodsForWeek ==
    /\ call.fn = "none" /\ call.arg.kind = "text"
    /\ Invoke("get_periods_for_week", call.arg.text, get_periods_for_week(call.arg.text))
    /\ UNCHANGED <<disk, table1Cache, managerCache, metricsFile, now, inflight>>

CallValidateIsoWeek ==
    /\ call.fn = "none" /\ call.arg.kind = "text"
    /\ Invoke("validate_iso_week", call.arg.text, validate_iso_week(call.arg.text))
    /\ UNCHANGED <<disk, table1Cache, managerCache, metricsFile, now, inflight>>

CallGetYtdPeriodsForWeek ==
    /\ call.fn = "none" /\ call.arg.kind = "text"
    /\ Invoke("get_ytd_periods_for_week", call.arg.text, get_ytd_periods_for_week(call.arg.text))
    /\ UNCHANGED <<disk, table1Cache, managerCache, metricsFile, now, inflight>>

NextCalendar ==
    \/ CallHas53Weeks
    \/ CallGetPreviousWeek
    \/ CallGetWeekDateRange
    \/ CallGetPeriodsForWeek
    \/ CallValidateIsoWeek
    \/ CallGetYtdPeriodsForWeek

SpecCalendar == InitCalendar /\ [][NextCalendar]_vars

-----------------------------------------------------------------------------
(* The ISO-8601 calendar the claims are stated against                     *)

\* the whole string is YYYY-W or YYYY-WW
WellFormedIsoWeek(s) ==
    /\ Len(s) \in {6, 7}
    /\ \A i \in 1..4 : IsDigit(s[i])
    /\ s[5] = "-"
    /\ \A i \in 6..Len(s) : IsDigit(s[i])

WfYear(s) == IntOf(SubSeq(s, 1, 4))

WfWeek(s) == IntOf(SubSeq(s, 6, Len(s)))

\* the number of ISO weeks of a year: the ISO week of its December 28
IsoWeeksInYear(y) == IsoCalendar(ToOrdinal(y, 12, 28))[2]

IsIsoWeek(y, w) == w \in 1..IsoWeeksInYear(y)

\* the Monday of ISO week (y, w): the one Monday whose ISO year and week are (y, w)
MondayOfIsoWeek(y, w) ==
    LET first == ToOrdinal(y, 1, 1) - 6
        monday0 == first + ((7 - Weekday(first)) % 7)
    IN CHOOSE d \in {monday0 + 7 * k : k \in 0..54} : IsoCalendar(d) = <<y, w>>

\* the ordinal of a date written YYYY-MM-DD
ParseDate(s) == ToOrdinal(IntOf(SubSeq(s, 1, 4)), IntOf(SubSeq(s, 6, 7)), IntOf(SubSeq(s, 9, 10)))

IsDateText(s) ==
    /\ Len(s) = 10
    /\ \A i \in {1, 2, 3, 4, 6, 7, 9, 10} : IsDigit(s[i])
    /\ s[5] = "-" /\ s[8] = "-"

-----------------------------------------------------------------------------
(* C5: for every year in 2000..2100, _has_53_weeks(year) is true exactly   *)
(* when the ISO-8601 calendar of that year has 53 weeks (December 28 lies  *)
(* in ISO week 53).                                                        *)
C5_Has53WeeksIsIso ==
    (call.fn = "_has_53_weeks" /\ call.arg \in MinYear..MaxYear)
        => ret.val = (IsoWeeksInYear(call.arg) = 53)

(* C6: for every valid ISO week (year, week), _get_previous_week returns   *)
(* the ISO week whose Monday is 7 days before the Monday of (year, week).  *)
C6_PreviousWeekIsSevenDaysEarlier ==
    (call.fn = "_get_previous_week" /\ IsIsoWeek(call.arg[1], call.arg[2]))
        => LET prev == IsoCalendar(MondayOfIsoWeek(call.arg[1], call.arg[2]) - 7)
           IN ret.val = WeekLabel(prev[1], prev[2])

(* C7: for every valid ISO week w, get_week_date_range(w) returns start =  *)
(* the Monday of ISO week w, end = start + 6 days, and every date from     *)
(* start to end has ISO (year, week) equal to w.                           *)
C7_WeekDateRangeIsIsoWeek ==
    (/\ call.fn = "get_week_date_range"
     /\ WellFormedIsoWeek(call.arg)
     /\ IsIsoWeek(WfYear(call.arg), WfWeek(call.arg)))
        => /\ ret.exc = "none"
           /\ IsDateText(ret.val.start) /\ IsDateText(ret.val.end)
           /\ LET a == ParseDate(ret.val.start)
                  b == ParseDate(ret.val.end)
              IN /\ Weekday(a) = 0
                 /\ a = MondayOfIsoWeek(WfYear(call.arg), WfWeek(call.arg))
                 /\ b = a + 6
                 /\ \A d \in a..b : IsoCalendar(d) = <<WfYear(call.arg), WfWeek(call.arg)>>

\* get_week_date_range("2025-42") = 2025-10-13 .. 2025-10-19
C7_Witness ==
    /\ call.fn = "get_week_date_range"
    /\ call.arg = <<"2", "0", "2", "5", "-", "4", "2">>
    /\ ret.exc = "none"
    /\ ret.val.start = <<"2", "0", "2", "5", "-", "1", "0", "-", "1", "3">>
    /\ ret.val.end = <<"2", "0", "2", "5", "-", "1", "0", "-", "1", "9">>

C9_ValidateIsoWeekExact ==
    call.fn = "validate_iso_week"
        => /\ ret.exc = "none"
           /\ ret.val = (/\ WellFormedIsoWeek(call.arg)
                         /\ WfYear(call.arg) \in MinYear..MaxYear
                         /\ WfWeek(call.arg) \in 1..53
                         /\ (WfWeek(call.arg) = 53 => IsoWeeksInYear(WfYear(call.arg)) = 53))

(* C10: get_week_date_range, get_periods_for_week and                      *)
(* get_ytd_periods_for_week fail with ValueError for every input that is   *)
(* not in full of the form YYYY-W[W] or whose week is outside 1..53.       *)
C10_InvalidPeriodRejected ==
    (/\ call.fn \in {"get_week_date_range", "get_periods_for_week", "get_ytd_periods_for_week"}
     /\ (~WellFormedIsoWeek(call.arg) \/ WfWeek(call.arg) \notin 1..53))
        => ret.exc = "ValueError"

-----------------------------------------------------------------------------
(* The service: uploads, cache invalidation and the calculators the routes *)
(* invoke with config.data_root.                                           *)

MaxUploads == 1

MaxClock == 2

BaseWeek == <<"2", "0", "2", "5", "-", "4", "2">>

UploadWeeks == {BaseWeek, <<"2", "0", "2", "5", "-", "9", "9">>}

FileTypes == {"qlik", "notes"}

AllowedTypes == {"qlik", "dema_spend", "dema_gm2", "shopify", "budget"}

NumWeeks == {1, 2}

\* the family whose computation meets a missing column, if any
Failing == {"none", "metrics", "contribution", "ncac_per_country"}

DiskStates == {"absent", "missing", "corrupt", "ok"}

Outcome(r) == [exc |-> r.exc, val |-> r.val, load |-> r.load]

InitService ==
    /\ call = [fn |-> "none", arg |-> <<>>]
    /\ ret = [exc |-> "none", val |-> <<>>, load |-> "skipped"]
    /\ disk \in [state : DiskStates, version : {0}, weekDirs : BOOLEAN]
    /\ table1Cache = EmptyCache
    /\ managerCache = EmptyCache
    /\ metricsFile = EmptyMetricsFile
    /\ now = 0
    /\ inflight = <<>>

\* api/routes.py upload_file
UploadFile ==
    \E week \in UploadWeeks, file_type \in FileTypes, content \in {"ok", "corrupt", "missing"} :
        /\ call' = [fn |-> "upload_file", arg |-> [week |-> week, file_type |-> file_type]]
        /\ IF ~validate_iso_week(week).val \/ file_type \notin AllowedTypes
           THEN /\ content = "ok"
                /\ ret' = [exc |-> "HTTPException400", val |-> <<>>, load |-> "skipped"]
                /\ UNCHANGED <<disk, table1Cache, managerCache, metricsFile>>
           ELSE /\ disk.version < MaxUploads
                /\ content = "missing" => disk.state \in {"absent", "missing"}
                /\ disk' = [disk EXCEPT !.state = content, !.version = @ + 1]
                /\ managerCache' = RawDataCache_clear(managerCache)
                /\ ret' = [exc |-> "none", val |-> [success |-> TRUE], load |-> "skipped"]
                /\ UNCHANGED table1Cache
        /\ UNCHANGED <<metricsFile, now, inflight>>

\* api/routes.py clear_cache
ClearCache ==
    /\ call' = [fn |-> "clear_cache", arg |-> <<>>]
    /\ ret' = [exc |-> "none", val |-> [success |-> TRUE], load |-> "skipped"]
    /\ metricsFile' = MetricsCache_clear(metricsFile)
    /\ table1Cache' = RawDataCache_clear(table1Cache)
    /\ UNCHANGED <<disk, managerCache, now, inflight>>

\* datetime.now() advances by an hour
Tick ==
    /\ now < MaxClock
    /\ now' = now + 1
    /\ UNCHANGED <<call, ret, disk, table1Cache, managerCache, metricsFile, inflight>>

Served(fn, arg, r) ==
    /\ call' = [fn |-> fn, arg |-> arg]
    /\ ret' = Outcome(r)
    /\ table1Cache' = r.cache
    /\ UNCHANGED <<disk, managerCache, metricsFile, now, inflight>>

CallTable1ForPeriods ==
    \E fails \in BOOLEAN :
        Served("calculate_table1_for_periods", [fails |-> fails],
               calculate_table1_for_periods(get_periods_for_week(BaseWeek).val,
                                            table1Cache, disk, now, fails))

CallTopMarkets ==
    \E num_weeks \in NumWeeks, fails \in BOOLEAN :
        Served("calculate_top_markets_for_weeks", [num_weeks |-> num_weeks, fails |-> fails],
               calculate_top_markets_for_weeks(BaseWeek, num_weeks, table1Cache, disk, now, fails))

CallOnlineKpis ==
    \E fails \in BOOLEAN :
        Served("calculate_online_kpis_for_weeks", [fails |-> fails],
               calculate_online_kpis_for_weeks(BaseWeek, table1Cache, disk, now, fails))

CallContribution ==
    \E fails \in BOOLEAN :
        Served("calculate_contribution_for_weeks", [fails |-> fails],
               calculate_contribution_for_weeks(BaseWeek, table1Cache, disk, now, fails))

CallAovNewCustomersPerCountry ==
    \E fails \in BOOLEAN :
        Served("calculate_aov_new_customers_per_country_for_weeks", [fails |-> fails],
               calculate_aov_new_customers_per_country_for_weeks(
                   BaseWeek, WeekDir(BaseWeek), table1Cache, disk, now, fails))

CallCalculateAllMetrics ==
    \E num_weeks \in NumWeeks, failing \in Failing :
        Served("calculate_all_metrics", [num_weeks |-> num_weeks, failing |-> failing],
               calculate_all_metrics(BaseWeek, num_weeks, table1Cache, disk, now, failing))

NextService ==
    \/ UploadFile
    \/ ClearCache
    \/ Tick
    \/ CallTable1ForPeriods
    \/ CallTopMarkets
    \/ CallOnlineKpis
    \/ CallContribution
    \/ CallAovNewCustomersPerCountry
    \/ CallCalculateAllMetrics

SpecService == InitService /\ [][NextService]_vars

\* C1: when the raw data loads and one family's computation raises (here the
\* contribution family meets a missing column), calculate_all_metrics does not
\* raise: it returns the bundle with that family's slot empty and every other
\* family populated.
C1_FamilyFailureIsContained ==
    (/\ call.fn = "calculate_all_metrics"
     /\ call.arg.failing = "contribution"
     /\ ret.load \in {"hit", "parsed"})
    => /\ ret.exc = "none"
       /\ ret.val["contribution"] = EmptySlot
       /\ \A f \in FamilySet \ {"contribution"} : ret.val[f] # EmptySlot

\* C2: after a successful upload_file the cache that load_all_raw_data reads
\* (metrics/table1.py raw_data_cache) holds no entry.
C2_UploadEmptiesLoaderCache ==
    (call.fn = "upload_file" /\ ret.exc = "none") => DOMAIN table1Cache = {}

\* C3: when the source loader fails inside a multi-week calculator, the failure
\* propagates out of the calculator; it is never turned into an empty result.
C3_LoaderFailurePropagates ==
    (/\ call.fn \in {"calculate_online_kpis_for_weeks", "calculate_contribution_for_weeks",
                     "calculate_table1_for_periods", "calculate_top_markets_for_weeks",
                     "calculate_aov_new_customers_per_country_for_weeks"}
     /\ ret.load \in {"FileNotFoundError", "ParseError"})
    => ret.exc = ret.load

-----------------------------------------------------------------------------
(* Ratio metrics.  A frame is a sequence of rows; a missing cell is NaN.   *)
(* A float is [kind, num, den]: the finite quotient num/den, or the IEEE   *)
(* result of a division by zero (inf, -inf, nan).                          *)

NaN == "NaN"

Zero == [kind |-> "finite", num |-> 0, den |-> 1]

\* numpy true division of two sums
FloatDiv(a, b) ==
    IF b # 0 THEN [kind |-> "finite", num |-> a, den |-> b]
    ELSE IF a > 0 THEN [kind |-> "inf", num |-> 0, den |-> 0]
    ELSE IF a < 0 THEN [kind |-> "-inf", num |-> 0, den |-> 0]
    ELSE [kind |-> "nan", num |-> 0, den |-> 0]

\* Series.fillna(0)
FillNa0(x) == IF x.kind = "nan" THEN Zero ELSE x

\* Series.sum() of a column
RECURSIVE SumOf(_, _)
SumOf(df, col) ==
    IF df = <<>> THEN 0 ELSE df[1][col] + SumOf(Tail(df), col)

\* Series.nunique(): the distinct values of a column, NaN not counted
Nunique(df, col) == Cardinality({df[i][col] : i \in 1..Len(df)} \ {NaN})

\* df[df[col] == value]
Where(df, col, value) ==
    LET keep(row) == row[col] = value IN SelectSeq(df, keep)

\* metrics/online_kpis.py calculate_week_kpis
calculate_week_kpis(qlik_df, sessions, marketing_spend) ==
    LET online_df == Where(qlik_df, "channel", "Online")
        gross_revenue == SumOf(online_df, "gross")
        new_customer_df == Where(online_df, "segment", "New")
        returning_customer_df == Where(online_df, "segment", "Returning")
        new_customers == Nunique(new_customer_df, "email")
        returning_customers == Nunique(returning_customer_df, "email")
        new_customer_revenue == SumOf(new_customer_df, "net")
        returning_customer_revenue == SumOf(returning_customer_df, "net")
        unique_orders == Nunique(online_df, "order")
    IN [aov_new_customer |->
            IF new_customers > 0 THEN FloatDiv(new_customer_revenue, new_customers) ELSE Zero,
        aov_returning_customer |->
            IF returning_customers > 0
            THEN FloatDiv(returning_customer_revenue, returning_customers) ELSE Zero,
        conversion_rate |->
            IF sessions > 0 THEN FloatDiv(unique_orders * 100, sessions) ELSE Zero,
        cos |->
            IF gross_revenue > 0 THEN FloatDiv(marketing_spend * 100, gross_revenue) ELSE Zero,
        new_customer_cac |->
            IF new_customers > 0 THEN FloatDiv(marketing_spend, new_customers) ELSE Zero,
        new_customers |-> new_customers,
        returning_customers |-> returning_customers,
        sessions |-> sessions,
        marketing_spend |-> marketing_spend,
        total_orders |-> unique_orders]

\* the new-customer online rows the per-country AOV is computed from
NewCustomersDf(qlik_df) == Where(Where(qlik_df, "channel", "Online"), "segment", "New")

\* metrics/aov_new_customers_per_country.py
\* calculate_aov_new_customers_per_country_for_week: country -> AOV
calculate_aov_new_customers_per_country_for_week(qlik_df) ==
    LET new_customers_df == NewCustomersDf(qlik_df)
        groups == {new_customers_df[i].country : i \in 1..Len(new_customers_df)}
    IN [country \in groups \ {NaN, "-"} |->
           LET g == Where(new_customers_df, "country", country)
           IN FillNa0(FloatDiv(SumOf(g, "gross"), Nunique(g, "order")))]

\* metrics/ncac_per_country.py: the countries that are not part of ROW
main_countries ==
    {"United States", "United Kingdom", "Sweden", "Germany", "Australia", "Canada", "France"}

\* metrics/ncac_per_country.py calculate_ncac_per_country_for_week: country -> nCAC,
\* with the keys Total and ROW.  merged_df is the outer merge of the spend and
\* the new customers per country; 70% of the spend is 7 * spend / 10.
calculate_ncac_per_country_for_week(dema_df, qlik_df) ==
    IF dema_df = <<>> \/ qlik_df = <<>> THEN [country \in {} |-> Zero]
    ELSE LET new_customers_df == NewCustomersDf(qlik_df)
             merged_df == {dema_df[i].country : i \in 1..Len(dema_df)}
                              \cup {new_customers_df[i].country : i \in 1..Len(new_customers_df)}
             spend(group) ==
                 LET in(row) == row.country \in group
                 IN 7 * SumOf(SelectSeq(dema_df, in), "spend")
             customers(c) == Nunique(Where(new_customers_df, "country", c), "email")
             RECURSIVE total(_)
             total(group) ==
                 IF group = {} THEN 0
                 ELSE LET c == CHOOSE x \in group : TRUE
                      IN customers(c) + total(group \ {c})
             ncac(group) ==
                 IF total(group) > 0 THEN FloatDiv(spend(group), 10 * total(group)) ELSE Zero
         IN [country \in (merged_df \ {NaN, "-"}) \cup {"Total", "ROW"} |->
                IF country = "Total" THEN ncac(merged_df)
                ELSE IF country = "ROW" THEN ncac(merged_df \ main_countries)
                ELSE ncac({country})]

MaxRows == 2

DemaRows == [country : {"Sweden", "Norway", "-"}, spend : {0, 50}]

DemaFrames == {<<>>} \cup {<<r>> : r \in DemaRows}

Rows ==
    [channel : {"Online", "Retail"}, segment : {"New", "Returning"}, country : {"Sweden", "Norway"},
     order : {NaN, "o1"}, email : {NaN, "a@x"}, gross : {0, 100}, net : {0, 80}]

Frames == UNION {[1..n -> Rows] : n \in 0..MaxRows}

InitRatio ==
    /\ call \in {[fn |-> "none", arg |-> [qlik_df |-> df]] : df \in Frames}
    /\ ret = Returns(<<>>)
    /\ disk = [state |-> "ok", version |-> 0, weekDirs |-> FALSE]
    /\ table1Cache = EmptyCache
    /\ managerCache = EmptyCache
    /\ metricsFile = EmptyMetricsFile
    /\ now = 0
    /\ inflight = <<>>

CallCalculateWeekKpis ==
    \E sessions \in {0, 10}, marketing_spend \in {0, 50} :
        /\ call.fn = "none"
        /\ call' = [fn |-> "calculate_week_kpis",
                    arg |-> [qlik_df |-> call.arg.qlik_df, sessions |-> sessions,
                             marketing_spend |-> marketing_spend]]
        /\ ret' = Returns(calculate_week_kpis(call.arg.qlik_df, sessions, marketing_spend))
        /\ UNCHANGED <<disk, table1Cache, managerCache, metricsFile, now, inflight>>

CallAovNewCustomersPerCountryForWeek ==
    /\ call.fn = "none"
    /\ call' = [call EXCEPT !.fn = "calculate_aov_new_customers_per_country_for_week"]
    /\ ret' = Returns(calculate_aov_new_customers_per_country_for_week(call.arg.qlik_df))
    /\ UNCHANGED <<disk, table1Cache, managerCache, metricsFile, now, inflight>>

CallNcacPerCountryForWeek ==
    \E dema_df \in DemaFrames :
        /\ call.fn = "none"
        /\ call' = [fn |-> "calculate_ncac_per_country_for_week",
                    arg |-> [qlik_df |-> call.arg.qlik_df, dema_df |-> dema_df]]
        /\ ret' = Returns(calculate_ncac_per_country_for_week(dema_df, call.arg.qlik_df))
        /\ UNCHANGED <<disk, table1Cache, managerCache, metricsFile, now, inflight>>

NextRatio ==
    \/ CallCalculateWeekKpis
    \/ CallAovNewCustomersPerCountryForWeek
    \/ CallNcacPerCountryForWeek

SpecRatio == InitRatio /\ [][NextRatio]_vars

\* C4: every ratio is exactly 0.0 when its denominator is 0: the weekly KPI
\* ratios, and the per-country AOV of a country with zero distinct orders.
C4_ZeroDenominatorGivesZero ==
    /\ call.fn = "calculate_week_kpis" =>
           LET online_df == Where(call.arg.qlik_df, "channel", "Online")
           IN /\ Nunique(Where(online_df, "segment", "New"), "email") = 0
                    => ret.val.aov_new_customer = Zero /\ ret.val.new_customer_cac = Zero
              /\ Nunique(Where(online_df, "segment", "Returning"), "email") = 0
                    => ret.val.aov_returning_customer = Zero
              /\ call.arg.sessions = 0 => ret.val.conversion_rate = Zero
              /\ SumOf(online_df, "gross") = 0 => ret.val.cos = Zero
    /\ call.fn = "calculate_aov_new_customers_per_country_for_week" =>
           \A country \in DOMAIN ret.val :
               Nunique(Where(NewCustomersDf(call.arg.qlik_df), "country", country), "order") = 0
                   => ret.val[country] = Zero

\* two floats denote the same number
FloatEq(x, y) ==
    /\ x.kind = y.kind
    /\ x.kind = "finite" => x.num * y.den = y.num * x.den

\* C14: every per-country result holds the keys Total and ROW; Total is the
\* aggregate over exactly the country entries of the result and ROW the same
\* aggregate over the entries outside the 7 major countries.
C14_TotalAndRowPresent ==
    /\ call.fn = "calculate_aov_new_customers_per_country_for_week" =>
           {"Total", "ROW"} \subseteq DOMAIN ret.val
    /\ call.fn = "calculate_ncac_per_country_for_week" =>
           /\ {"Total", "ROW"} \subseteq DOMAIN ret.val
           /\ LET entries == DOMAIN ret.val \ {"Total", "ROW"}
                  new_customers_df == NewCustomersDf(call.arg.qlik_df)
                  customers(group) ==
                      LET in(row) == row.country \in group
                      IN Cardinality({<<row.country, row.email>> :
                             row \in {r \in {new_customers_df[i] : i \in 1..Len(new_customers_df)} :
                                          in(r) /\ r.email # NaN}})
                  spend(group) ==
                      LET in(row) == row.country \in group
                      IN 7 * SumOf(SelectSeq(call.arg.dema_df, in), "spend")
                  aggregate(group) ==
                      IF customers(group) > 0
                      THEN FloatDiv(spend(group), 10 * customers(group)) ELSE Zero
              IN /\ FloatEq(ret.val["Total"], aggregate(entries))
                 /\ FloatEq(ret.val["ROW"], aggregate(entries \ main_countries))

-----------------------------------------------------------------------------
(* The metrics cache on its own: every set takes an instant, and an hour   *)
(* may pass once the sets are done.                                        *)

MaxInstants == 11

MetricsWeeks == {BaseWeek, <<"2", "0", "2", "5", "-", "4", "1">>}

SetPeriods == {<<"actual", "last_week">>}

GetPeriods == {<<"actual", "last_week">>, <<"last_week", "actual">>, <<"actual">>}

\* the requests whose results are stored: each base week has its own result
SetRequests ==
    {[base_week |-> BaseWeek, data |-> "r1"],
     [base_week |-> <<"2", "0", "2", "5", "-", "4", "1">>, data |-> "r2"]}

InitMetricsCache ==
    /\ call = [fn |-> "none", arg |-> <<>>]
    /\ ret = Returns(None)
    /\ disk = [state |-> "ok", version |-> 0, weekDirs |-> FALSE]
    /\ table1Cache = EmptyCache
    /\ managerCache = EmptyCache
    /\ metricsFile = EmptyMetricsFile
    /\ now = 0
    /\ inflight = <<>>

MetricsSet ==
    \E req \in SetRequests, periods \in SetPeriods :
        /\ now < MaxInstants
        /\ call' = [fn |-> "MetricsCache.set",
                    arg |-> [base_week |-> req.base_week, periods |-> periods,
                             data |-> req.data]]
        /\ ret' = Returns(None)
        /\ metricsFile' = MetricsCache_set(metricsFile, req.base_week, periods, req.data, now)
        /\ now' = now + 1
        /\ UNCHANGED <<disk, table1Cache, managerCache, inflight>>

MetricsGet ==
    \E base_week \in MetricsWeeks, periods \in GetPeriods :
        /\ call' = [fn |-> "MetricsCache.get",
                    arg |-> [base_week |-> base_week, periods |-> periods]]
        /\ ret' = Returns(MetricsCache_get(metricsFile, base_week, periods, now))
        /\ UNCHANGED <<disk, table1Cache, managerCache, metricsFile, now, inflight>>

MetricsClear ==
    /\ call' = [fn |-> "MetricsCache.clear", arg |-> <<>>]
    /\ ret' = Returns(None)
    /\ metricsFile' = MetricsCache_clear(metricsFile)
    /\ UNCHANGED <<disk, table1Cache, managerCache, now, inflight>>

MetricsInvalidate ==
    \E base_week \in MetricsWeeks :
        /\ call' = [fn |-> "MetricsCache.invalidate", arg |-> [base_week |-> base_week]]
        /\ ret' = Returns(None)
        /\ metricsFile' = MetricsCache_invalidate(metricsFile, base_week)
        /\ UNCHANGED <<disk, table1Cache, managerCache, now, inflight>>

HourPasses ==
    /\ now <= MaxInstants
    /\ now' = now + MetricsMaxAgeMinutes * InstantsPerMinute
    /\ UNCHANGED <<call, ret, disk, table1Cache, managerCache, metricsFile, inflight>>

NextMetricsCache ==
    \/ MetricsSet
    \/ MetricsGet
    \/ MetricsClear
    \/ MetricsInvalidate
    \/ HourPasses

SpecMetricsCache == InitMetricsCache /\ [][NextMetricsCache]_vars

\* the entries stored for the base week and the set of periods of the last call
SameRequest ==
    {k \in DOMAIN metricsFile :
        /\ metricsFile[k].base_week = call.arg.base_week
        /\ {metricsFile[k].periods[i] : i \in DOMAIN metricsFile[k].periods}
               = {call.arg.periods[i] : i \in DOMAIN call.arg.periods}}

\* C11: a MetricsCache.get issued less than one hour after a set with the same
\* base week and the same set of periods, whose entry is still in the store,
\* returns the data of the latest such set; a get issued more than one hour
\* after the set misses.
C11_MetricsGetWithinTheHour ==
    call.fn = "MetricsCache.get" =>
        LET hour == MetricsMaxAgeMinutes * InstantsPerMinute
            fresh == {k \in SameRequest : now - metricsFile[k].timestamp < hour}
            stale == {k \in SameRequest : now - metricsFile[k].timestamp > hour}
        IN /\ fresh # {} =>
                  \E k \in fresh :
                      /\ \A j \in fresh : metricsFile[j].timestamp <= metricsFile[k].timestamp
                      /\ ret.val = metricsFile[k].data
           /\ (fresh = {} /\ stale # {}) => ret.val = None

\* C12: the store never holds more than 10 entries; a set keeps the entry it
\* writes, leaves the entries it keeps unchanged, and drops an entry only to
\* get back to 10, and then only entries older than every entry it keeps.
C12_SetKeepsTenNewest ==
    [][(call'.fn = "MetricsCache.set" /\ now' = now + 1) =>
          LET written == {k \in DOMAIN metricsFile' : metricsFile'[k].timestamp = now}
              kept == DOMAIN metricsFile' \ written
              dropped == DOMAIN metricsFile \ DOMAIN metricsFile'
          IN /\ Cardinality(DOMAIN metricsFile') <= MetricsMaxEntries
             /\ Cardinality(written) = 1
             /\ \A k \in written :
                    /\ metricsFile'[k].data = call'.arg.data
                    /\ metricsFile'[k].base_week = call'.arg.base_week
                    /\ metricsFile'[k].periods = call'.arg.periods
             /\ \A k \in kept : k \in DOMAIN metricsFile /\ metricsFile'[k] = metricsFile[k]
             /\ dropped # {} => Cardinality(DOMAIN metricsFile') = MetricsMaxEntries
             /\ \A d \in dropped : \A k \in DOMAIN metricsFile' :
                    metricsFile[d].timestamp < metricsFile'[k].timestamp
      ]_vars

\* after the eleventh set ten entries remain, the one written at instant 0 gone
C12_Witness ==
    /\ call.fn = "MetricsCache.set"
    /\ now = MetricsMaxEntries + 1
    /\ Cardinality(DOMAIN metricsFile) = MetricsMaxEntries
    /\ {metricsFile[k].timestamp : k \in DOMAIN metricsFile} = 1..MetricsMaxEntries

-----------------------------------------------------------------------------
(* The raw-data cache on its own: the instance of metrics/table1.py, whose *)
(* entries live Table1MaxAgeHours.                                         *)

CacheKeys == {RawDir, WeekDir(BaseWeek)}

Bundles == {"b1", "b2"}

InitRawDataCache ==
    /\ call = [fn |-> "none", arg |-> <<>>]
    /\ ret = Returns(None)
    /\ disk = [state |-> "ok", version |-> 0, weekDirs |-> FALSE]
    /\ table1Cache = EmptyCache
    /\ managerCache = EmptyCache
    /\ metricsFile = EmptyMetricsFile
    /\ now = 0
    /\ inflight = <<>>

RawGet ==
    \E data_path \in CacheKeys :
        LET r == RawDataCache_get(table1Cache, data_path, Table1MaxAgeHours, now)
        IN /\ call' = [fn |-> "RawDataCache.get", arg |-> [data_path |-> data_path]]
           /\ ret' = Returns(IF r.hit THEN r.data ELSE None)
           /\ table1Cache' = r.cache
           /\ UNCHANGED <<disk, managerCache, metricsFile, now, inflight>>

RawSet ==
    \E data_path \in CacheKeys, data \in Bundles :
        /\ call' = [fn |-> "RawDataCache.set", arg |-> [data_path |-> data_path, data |-> data]]
        /\ ret' = Returns(None)
        /\ table1Cache' = RawDataCache_set(table1Cache, data_path, data, now)
        /\ UNCHANGED <<disk, managerCache, metricsFile, now, inflight>>

RawClear ==
    /\ call' = [fn |-> "RawDataCache.clear", arg |-> <<>>]
    /\ ret' = Returns(None)
    /\ table1Cache' = RawDataCache_clear(table1Cache)
    /\ UNCHANGED <<disk, managerCache, metricsFile, now, inflight>>

NextRawDataCache ==
    \/ RawGet
    \/ RawSet
    \/ RawClear
    \/ Tick

SpecRawDataCache == InitRawDataCache /\ [][NextRawDataCache]_vars

\* C13: get(key) returns the bundle stored under key exactly when an entry
\* exists and now - storedAt < maxAge, and then changes nothing; otherwise it
\* misses and removes the entry of key if there was one; set writes the entry
\* of its own key with the current time; neither touches another key's entry.
C13_RawDataCacheGetSet ==
    [][/\ (call'.fn = "RawDataCache.get" /\ now' = now) =>
            LET key == call'.arg.data_path
                live == /\ key \in DOMAIN table1Cache
                        /\ now - table1Cache[key].timestamp < Table1MaxAgeHours
            IN /\ ret'.val = (IF live THEN table1Cache[key].data ELSE None)
               /\ live => table1Cache' = table1Cache
               /\ ~live => /\ DOMAIN table1Cache' = DOMAIN table1Cache \ {key}
                           /\ \A k \in DOMAIN table1Cache' : table1Cache'[k] = table1Cache[k]
       /\ (call'.fn = "RawDataCache.set" /\ now' = now) =>
            LET key == call'.arg.data_path
            IN /\ DOMAIN table1Cache' = DOMAIN table1Cache \cup {key}
               /\ table1Cache'[key] = [data |-> call'.arg.data, timestamp |-> now]
               /\ \A k \in DOMAIN table1Cache \ {key} : table1Cache'[k] = table1Cache[k]
      ]_vars

\* a get served from an entry stored an hour earlier, another key also cached
C13_Witness ==
    /\ call.fn = "RawDataCache.get"
    /\ call.arg.data_path \in DOMAIN table1Cache
    /\ ret.val = table1Cache[call.arg.data_path].data
    /\ now - table1Cache[call.arg.data_path].timestamp = 1
    /\ Cardinality(DOMAIN table1Cache) = 2

-----------------------------------------------------------------------------
(* metrics/table1.py: the headline metrics of one period.  Amounts are     *)
(* whole numbers; a percentage rounded to one decimal is kept in tenths.   *)

\* round(num / den * 100, 1) in tenths, for num >= 0 and den > 0.  A quotient
\* exactly halfway between two tenths goes to either, as its binary float
\* lies on one side or the other.
Round1Pct_Truncated(num, den) == {(num * 1000) \div den}

Round1Pct(num, den) ==
    LET q == (num * 1000) \div den
        r == (num * 1000) % den
    IN IF 2 * r < den THEN {q}
       ELSE IF 2 * r > den THEN {q + 1}
       ELSE {q, q + 1}

\* df[(df[col] >= start_date) & (df[col] <= end_date)]
Between(df, col, start_date, end_date) ==
    LET keep(row) == row[col] >= start_date /\ row[col] <= end_date
    IN SelectSeq(df, keep)

\* calculate_table1_metrics_for_date_range: the 13 metrics of the frames given;
\* rr and cos are the roundings taken
calculate_table1_metrics_for_date_range(qlik_df, dema_spend_df, rr, cos) ==
    LET online == Where(qlik_df, "channel", "Online")
        retail == Where(qlik_df, "channel", "Retail")
        outlet(row) == row.country = "Outlet"
        concept(row) == row.country # "Outlet"
        online_gross_revenue == SumOf(online, "gross")
        online_net_revenue == SumOf(online, "net")
        retail_concept_store == SumOf(SelectSeq(retail, concept), "net")
        retail_popups_outlets == SumOf(SelectSeq(retail, outlet), "net")
        retail_net_revenue == retail_concept_store + retail_popups_outlets
        wholesale_net_revenue == SumOf(Where(qlik_df, "channel", "Wholesale"), "net")
    IN [online_gross_revenue |-> online_gross_revenue,
        returns |-> SumOf(qlik_df, "returns"),
        return_rate_pct |-> IF online_gross_revenue > 0 THEN rr ELSE 0,
        online_net_revenue |-> online_net_revenue,
        retail_concept_store |-> retail_concept_store,
        retail_popups_outlets |-> retail_popups_outlets,
        retail_net_revenue |-> retail_net_revenue,
        wholesale_net_revenue |-> wholesale_net_revenue,
        total_net_revenue |-> online_net_revenue + retail_net_revenue + wholesale_net_revenue,
        returning_customers |-> Nunique(Where(qlik_df, "segment", "Returning"), "email"),
        new_customers |-> Nunique(Where(qlik_df, "segment", "New"), "email"),
        marketing_spend |-> SumOf(dema_spend_df, "spend"),
        online_cost_of_sale_3 |-> IF online_gross_revenue > 0 THEN cos ELSE 0]

\* the roundings round() may return for the two percentages of the frames given
RoundingsOf(qlik_df, dema_spend_df) ==
    LET online_gross_revenue == SumOf(Where(qlik_df, "channel", "Online"), "gross")
    IN IF online_gross_revenue > 0
       THEN Round1Pct(SumOf(qlik_df, "returns"), online_gross_revenue)
                \X Round1Pct(SumOf(dema_spend_df, "spend"), online_gross_revenue)
       ELSE {<<0, 0>>}

\* get_week_date_range(period_week) of the periods analysed, tabulated
WeekDateRanges == [period_week \in {BaseWeek} |-> get_week_date_range(period_week).val]

\* calculate_table1_metrics: the metrics of the rows dated within the ISO week
calculate_table1_metrics(qlik_df, dema_spend_df, period_week, rr, cos) ==
    LET date_range == WeekDateRanges[period_week]
        start_date == ParseDate(date_range.start)
        end_date == ParseDate(date_range.end)
    IN calculate_table1_metrics_for_date_range(
           Between(qlik_df, "date", start_date, end_date),
           Between(dema_spend_df, "date", start_date, end_date), rr, cos)

MaxTable1Rows == 2

\* Sunday 2025-10-19, the last day of week 2025-42, and the Monday after
Table1Dates == {ToOrdinal(2025, 10, 19), ToOrdinal(2025, 10, 20)}

\* gross, returns and net of one row
Table1Amounts ==
    {<<0, 0, 0>>, <<0, 0, 55000>>, <<1145000, 0, 0>>, <<1145000, 24000, 1121000>>}

Table1Rows ==
    {[channel |-> c[1], country |-> c[2], date |-> d,
      gross |-> a[1], returns |-> a[2], net |-> a[3],
      segment |-> IF a[1] > 0 THEN "New" ELSE "Returning", email |-> "a@x"] :
        c \in {<<"Online", "Sweden">>, <<"Retail", "Sweden">>, <<"Retail", "Outlet">>,
               <<"Wholesale", "Sweden">>},
        d \in Table1Dates, a \in Table1Amounts}

Table1Frames == UNION {[1..n -> Table1Rows] : n \in 0..MaxTable1Rows}

SpendFrames == {<<>>} \cup {<<[date |-> d, spend |-> s]>> : d \in Table1Dates, s \in {0, 359000}}

InitTable1 ==
    /\ call \in {[fn |-> "none", arg |-> [qlik_df |-> df]] : df \in Table1Frames}
    /\ ret = Returns(<<>>)
    /\ disk = [state |-> "ok", version |-> 0, weekDirs |-> FALSE]
    /\ table1Cache = EmptyCache
    /\ managerCache = EmptyCache
    /\ metricsFile = EmptyMetricsFile
    /\ now = 0
    /\ inflight = <<>>

CallCalculateTable1Metrics ==
    /\ call.fn = "none"
    /\ \E dema_spend_df \in SpendFrames :
           LET qlik_df == call.arg.qlik_df
               date_range == WeekDateRanges[BaseWeek]
               start_date == ParseDate(date_range.start)
               end_date == ParseDate(date_range.end)
           IN \E r \in RoundingsOf(Between(qlik_df, "date", start_date, end_date),
                                    Between(dema_spend_df, "date", start_date, end_date)) :
                  /\ call' = [fn |-> "calculate_table1_metrics",
                              arg |-> [qlik_df |-> qlik_df, dema_spend_df |-> dema_spend_df,
                                       period_week |-> BaseWeek]]
                  /\ ret' = Returns(calculate_table1_metrics(qlik_df, dema_spend_df, BaseWeek,
                                                             r[1], r[2]))
    /\ UNCHANGED <<disk, table1Cache, managerCache, metricsFile, now, inflight>>

NextTable1 ==
    \/ CallCalculateTable1Metrics

SpecTable1 == InitTable1 /\ [][NextTable1]_vars

\* the rows of the frame dated Monday 2025-10-13 to Sunday 2025-10-19
InWeek42(df, col) ==
    LET keep(row) == /\ row[col] >= ToOrdinal(2025, 10, 13)
                     /\ row[col] <= ToOrdinal(2025, 10, 19)
    IN SelectSeq(df, keep)

\* t tenths is x / y * 100 rounded to one decimal
IsRoundedPct(t, x, y) == 2 * (IF t * y >= 1000 * x THEN t * y - 1000 * x ELSE 1000 * x - t * y) <= y

\* the sum of column col over the week's rows of one channel, in or out of the outlet
WeekSum(channel, outlet, col) ==
    LET keep(row) == row.channel = channel /\ (row.country = "Outlet") = outlet
    IN SumOf(SelectSeq(InWeek42(call.arg.qlik_df, "date"), keep), col)

-----------------------------------------------------------------------------
(* metrics/contribution.py calculate_week_contributions.  Amounts are exact *)
(* fractions [num, den] with den > 0.                                      *)

Frac(num, den) == [num |-> num, den |-> den]

FracEq(x, y) == x.num * y.den = y.num * x.den

\* split: the margin frame has the column 'New vs Returning Customer'
calculate_week_contributions(qlik_df, dema_df, dema_gm2_df, split) ==
    LET online_df == Where(qlik_df, "channel", "Online")
        gross_revenue_new == SumOf(Where(online_df, "segment", "New"), "gross")
        gross_revenue_returning == SumOf(Where(online_df, "segment", "Returning"), "gross")
        gross_revenue_total == SumOf(online_df, "gross")
        old_total == SumOf(dema_gm2_df, "margin")
        gm2_new ==
            IF dema_gm2_df = <<>> THEN Frac(0, 1)
            ELSE IF split THEN Frac(SumOf(Where(dema_gm2_df, "segment", "New"), "margin"), 1)
            ELSE IF gross_revenue_total > 0
                 THEN Frac(old_total * gross_revenue_new, gross_revenue_total)
                 ELSE Frac(0, 1)
        gm2_returning ==
            IF dema_gm2_df = <<>> THEN Frac(0, 1)
            ELSE IF split
                 THEN Frac(SumOf(Where(dema_gm2_df, "segment", "Returning"), "margin"), 1)
            ELSE IF gross_revenue_total > 0
                 THEN Frac(old_total * gross_revenue_returning, gross_revenue_total)
                 ELSE Frac(0, 1)
        \* gm2_new and gm2_returning have the same denominator
        gm2_total == Frac(gm2_new.num + gm2_returning.num, gm2_new.den)
        marketing_spend == SumOf(dema_df, "spend")
    IN [gross_revenue_new |-> gross_revenue_new,
        gross_revenue_returning |-> gross_revenue_returning,
        contribution_new |->
            Frac(10 * gm2_new.num - 7 * marketing_spend * gm2_new.den, 10 * gm2_new.den),
        contribution_returning |->
            Frac(10 * gm2_returning.num - 3 * marketing_spend * gm2_returning.den,
                 10 * gm2_returning.den),
        contribution_total |->
            Frac(gm2_total.num - marketing_spend * gm2_total.den, gm2_total.den)]

ContributionRows ==
    [channel : {"Online", "Retail"}, segment : {"New", "Returning"}, gross : {0, 100}]

ContributionFrames == UNION {[1..n -> ContributionRows] : n \in 0..MaxRows}

MarginRows == [segment : {"New", "Returning", NaN}, margin : {0, 100}]

MarginFrames == UNION {[1..n -> MarginRows] : n \in 0..MaxRows}

InitContribution ==
    /\ call \in {[fn |-> "none", arg |-> [qlik_df |-> df]] : df \in ContributionFrames}
    /\ ret = Returns(<<>>)
    /\ disk = [state |-> "ok", version |-> 0, weekDirs |-> FALSE]
    /\ table1Cache = EmptyCache
    /\ managerCache = EmptyCache
    /\ metricsFile = EmptyMetricsFile
    /\ now = 0
    /\ inflight = <<>>

CallCalculateWeekContributions ==
    /\ call.fn = "none"
    /\ \E dema_gm2_df \in MarginFrames, split \in BOOLEAN, spend \in {0, 50} :
           LET dema_df == <<[spend |-> spend]>>
           IN /\ call' = [fn |-> "calculate_week_contributions",
                          arg |-> [qlik_df |-> call.arg.qlik_df, dema_df |-> dema_df,
                                   dema_gm2_df |-> dema_gm2_df, split |-> split]]
              /\ ret' = Returns(calculate_week_contributions(call.arg.qlik_df, dema_df,
                                                             dema_gm2_df, split))
    /\ UNCHANGED <<disk, table1Cache, managerCache, metricsFile, now, inflight>>

NextContribution ==
    \/ CallCalculateWeekContributions

SpecContribution == InitContribution /\ [][NextContribution]_vars

\* C16: calculate_week_contributions returns contribution_total = the sum of
\* the margin column over all of the week's margin rows minus the week's
\* marketing spend, and contribution_new / contribution_returning = the
\* segment's margin minus 70% / 30% of the spend, the segment's margin being
\* read from its rows when the margin source is split by segment and the
\* segment's share of online gross revenue of the total margin otherwise.
C16_ContributionIsMarginMinusSpend ==
    call.fn = "calculate_week_contributions" =>
        LET a == call.arg
            m == ret.val
            margin == SumOf(a.dema_gm2_df, "margin")
            spend == SumOf(a.dema_df, "spend")
            online == Where(a.qlik_df, "channel", "Online")
            gross == SumOf(online, "gross")
            ofNew == IF a.split
                     THEN Frac(SumOf(Where(a.dema_gm2_df, "segment", "New"), "margin"), 1)
                     ELSE Frac(margin * SumOf(Where(online, "segment", "New"), "gross"), gross)
            ofReturning ==
                IF a.split
                THEN Frac(SumOf(Where(a.dema_gm2_df, "segment", "Returning"), "margin"), 1)
                ELSE Frac(margin * SumOf(Where(online, "segment", "Returning"), "gross"), gross)
        IN /\ FracEq(m.contribution_total, Frac(margin - spend, 1))
           /\ (a.split \/ gross > 0) =>
                  /\ FracEq(m.contribution_new,
                            Frac(10 * ofNew.num - 7 * spend * ofNew.den, 10 * ofNew.den))
                  /\ FracEq(m.contribution_returning,
                            Frac(10 * ofReturning.num - 3 * spend * ofReturning.den,
                                 10 * ofReturning.den))

-----------------------------------------------------------------------------
(* metrics/men_category_sales.py, gender_sales.py, top_products_gender.py: *)
(* the calculators of one gender segment over one week's qlik frame.       *)

Genders == {"Men", "women", "Unisex", NaN}

\* Series.str.upper(): NaN stays NaN
Upper(gender) ==
    CASE gender = "Men" -> "MEN"
      [] gender = "women" -> "WOMEN"
      [] gender = "Unisex" -> "UNISEX"
      [] OTHER -> gender

\* the values of a column
Column(df, col) == {df[i][col] : i \in 1..Len(df)}

\* calculate_men_category_sales_for_week: category -> gross revenue
calculate_men_category_sales_for_week(qlik_df) ==
    LET men(row) == row.channel = "Online" /\ Upper(row.gender) = "MEN"
        men_df == SelectSeq(qlik_df, men)
        \* groupby drops the NaN keys
        categories == Column(men_df, "category") \ {NaN, "-"}
    IN [categories |-> [c \in categories |-> SumOf(Where(men_df, "category", c), "gross")]]

\* calculate_gender_sales_for_week
calculate_gender_sales_for_week(qlik_df) ==
    LET online_df == Where(qlik_df, "channel", "Online")
        sales(g) == LET is(row) == Upper(row.gender) = g
                    IN SumOf(SelectSeq(online_df, is), "gross")
    IN [men_unisex_sales |-> sales("MEN") + sales("UNISEX"),
        women_sales |-> sales("WOMEN"),
        total_sales |-> SumOf(online_df, "gross")]

\* the rows kept by the gender filter of calculate_top_products_by_gender_for_week
GenderFiltered(qlik_df, gender_filter) ==
    LET keep(row) ==
            /\ row.channel = "Online"
            /\ gender_filter = "men" => Upper(row.gender) # "WOMEN"
            /\ gender_filter = "women" => Upper(row.gender) = "WOMEN"
    IN SelectSeq(qlik_df, keep)

GroupKey(row) == <<row.gender, row.category, row.product, row.color>>

\* groupby(['Gender', 'Product Category', 'Product', 'Color']).agg(sum), without
\* the groups of a NaN key, then without those of a '-' gender, category or product
ProductSales(online_df) ==
    LET keys == {GroupKey(online_df[i]) : i \in 1..Len(online_df)}
        valid == {k \in keys : /\ \A j \in 1..4 : k[j] # NaN
                               /\ \A j \in 1..3 : k[j] # "-"}
        of(k) == LET in(row) == GroupKey(row) = k IN SelectSeq(online_df, in)
    IN {[key |-> k, gross_revenue |-> SumOf(of(k), "gross"), sales_qty |-> SumOf(of(k), "qty")] :
            k \in valid}

\* sort_values('Gross Revenue', ascending=False): the orders it may produce,
\* equal revenues in any order
SortedByRevenue(product_sales) ==
    LET n == Cardinality(product_sales)
    IN {s \in [1..n -> product_sales] :
            /\ \A i, j \in 1..n : i # j => s[i] # s[j]
            /\ \A i \in 1..n, j \in 1..n : i < j => s[i].gross_revenue >= s[j].gross_revenue}

HeadN(s, n) == SubSeq(s, 1, IF Len(s) < n THEN Len(s) ELSE n)

\* calculate_top_products_by_gender_for_week; sorted is the order the sort gave
calculate_top_products_by_gender_for_week_NoFilter(qlik_df, gender_filter, top_n, sorted) ==
    LET online_df == GenderFiltered(qlik_df, gender_filter)
        all_df == Where(qlik_df, "channel", "Online")
        top_products == HeadN(sorted, top_n)
        top_total_revenue == SumOf(top_products, "gross_revenue")
        grand_total_revenue == SumOf(all_df, "gross")
    IN [products |-> [i \in 1..Len(top_products) |->
                         [rank |-> i, gender |-> Upper(top_products[i].key[1]),
                          key |-> top_products[i].key,
                          gross_revenue |-> top_products[i].gross_revenue,
                          sales_qty |-> top_products[i].sales_qty]],
        top_total |-> [gross_revenue |-> top_total_revenue,
                       sales_qty |-> SumOf(top_products, "sales_qty"),
                       sob |-> IF grand_total_revenue > 0
                               THEN FloatDiv(top_total_revenue * 100, grand_total_revenue)
                               ELSE Zero],
        grand_total |-> [gross_revenue |-> grand_total_revenue,
                         sales_qty |-> SumOf(all_df, "qty"),
                         sob |-> FloatDiv(100, 1)]]

calculate_top_products_by_gender_for_week(qlik_df, gender_filter, top_n, sorted) ==
    LET online_df == GenderFiltered(qlik_df, gender_filter)
        top_products == HeadN(sorted, top_n)
        top_total_revenue == SumOf(top_products, "gross_revenue")
        grand_total_revenue == SumOf(online_df, "gross")
    IN [products |-> [i \in 1..Len(top_products) |->
                         [rank |-> i, gender |-> Upper(top_products[i].key[1]),
                          key |-> top_products[i].key,
                          gross_revenue |-> top_products[i].gross_revenue,
                          sales_qty |-> top_products[i].sales_qty]],
        top_total |-> [gross_revenue |-> top_total_revenue,
                       sales_qty |-> SumOf(top_products, "sales_qty"),
                       sob |-> IF grand_total_revenue > 0
                               THEN FloatDiv(top_total_revenue * 100, grand_total_revenue)
                               ELSE Zero],
        grand_total |-> [gross_revenue |-> grand_total_revenue,
                         sales_qty |-> SumOf(online_df, "qty"),
                         sob |-> FloatDiv(100, 1)]]

MaxGenderRows == 2

\* online rows of every gender, then rows of a '-' category and of a NaN
\* color, then a retail row
GenderRows ==
    {[channel |-> "Online", gender |-> g, category |-> "Shoes", product |-> p,
      color |-> "red", gross |-> a[1], qty |-> a[2]] :
        g \in Genders, p \in {"p1", "p2"}, a \in {<<100, 1>>, <<200, 2>>}}
    \cup {[channel |-> "Online", gender |-> g, category |-> k[1], product |-> "p1",
           color |-> k[2], gross |-> 100, qty |-> 1] :
              g \in {"Men", "women"}, k \in {<<"-", "red">>, <<"Shoes", NaN>>}}
    \cup {[channel |-> "Retail", gender |-> "Men", category |-> "Shoes", product |-> "p1",
           color |-> "red", gross |-> 100, qty |-> 1]}

GenderFrames == UNION {[1..n -> GenderRows] : n \in 0..MaxGenderRows}

InitGender ==
    /\ call \in {[fn |-> "none", arg |-> [qlik_df |-> df]] : df \in GenderFrames}
    /\ ret = Returns(<<>>)
    /\ disk = [state |-> "ok", version |-> 0, weekDirs |-> FALSE]
    /\ table1Cache = EmptyCache
    /\ managerCache = EmptyCache
    /\ metricsFile = EmptyMetricsFile
    /\ now = 0
    /\ inflight = <<>>

CallMenCategorySalesForWeek ==
    /\ call.fn = "none"
    /\ call' = [fn |-> "calculate_men_category_sales_for_week",
                arg |-> [qlik_df |-> call.arg.qlik_df]]
    /\ ret' = Returns(calculate_men_category_sales_for_week(call.arg.qlik_df))
    /\ UNCHANGED <<disk, table1Cache, managerCache, metricsFile, now, inflight>>

CallGenderSalesForWeek ==
    /\ call.fn = "none"
    /\ call' = [fn |-> "calculate_gender_sales_for_week", arg |-> [qlik_df |-> call.arg.qlik_df]]
    /\ ret' = Returns(calculate_gender_sales_for_week(call.arg.qlik_df))
    /\ UNCHANGED <<disk, table1Cache, managerCache, metricsFile, now, inflight>>

CallTopProductsByGenderForWeek ==
    /\ call.fn = "none"
    /\ \E gender_filter \in {"men", "women"}, top_n \in {1, 2} :
           \E sorted \in SortedByRevenue(ProductSales(GenderFiltered(call.arg.qlik_df,
                                                                    gender_filter))) :
               /\ call' = [fn |-> "calculate_top_products_by_gender_for_week",
                           arg |-> [qlik_df |-> call.arg.qlik_df,
                                    gender_filter |-> gender_filter, top_n |-> top_n]]
               /\ ret' = Returns(calculate_top_products_by_gender_for_week(
                                     call.arg.qlik_df, gender_filter, top_n, sorted))
    /\ UNCHANGED <<disk, table1Cache, managerCache, metricsFile, now, inflight>>

NextGender ==
    \/ CallMenCategorySalesForWeek
    \/ CallGenderSalesForWeek
    \/ CallTopProductsByGenderForWeek

SpecGender == InitGender /\ [][NextGender]_vars

\* the online rows of the frame whose gender is, or is not, exactly women
OnlineOf(qlik_df, women) ==
    LET keep(row) == row.channel = "Online" /\ (Upper(row.gender) = "WOMEN") = women
    IN SelectSeq(qlik_df, keep)

\* C17: the men category-sales calculator sums gross revenue per category over
\* every online row whose gender is not exactly women, unisex and unknown
\* included; the women calculators count only the rows of exactly women; the
\* men side of gender sales and of the top products follows the same rule.
C17_MenIsAllButWomen ==
    LET qlik_df == call.arg.qlik_df
        men == OnlineOf(qlik_df, FALSE)
        women == OnlineOf(qlik_df, TRUE)
    IN /\ call.fn = "calculate_men_category_sales_for_week" =>
              \A c \in Column(men, "category") \ {NaN, "-"} :
                  /\ c \in DOMAIN ret.val.categories
                  /\ ret.val.categories[c] = SumOf(Where(men, "category", c), "gross")
       /\ call.fn = "calculate_gender_sales_for_week" =>
              /\ ret.val.men_unisex_sales = SumOf(men, "gross")
              /\ ret.val.women_sales = SumOf(women, "gross")
       /\ call.fn = "calculate_top_products_by_gender_for_week" =>
              ret.val.grand_total.gross_revenue
                  = SumOf(IF call.arg.gender_filter = "men" THEN men ELSE women, "gross")

\* C18: calculate_top_products_by_gender_for_week returns totals where
\* top_total.sales_qty plus the quantity of the segment's rows outside the
\* returned products equals grand_total.sales_qty, top_total.sob is the top
\* revenue over the grand revenue times 100 (0 when the grand total is 0), and
\* grand_total.sob is 100.
C18_TopPlusExcludedIsGrandTotal ==
    call.fn = "calculate_top_products_by_gender_for_week" =>
        LET m == ret.val
            segment == OnlineOf(call.arg.qlik_df, call.arg.gender_filter = "women")
            returned == {m.products[i].key : i \in 1..Len(m.products)}
            excluded(row) == GroupKey(row) \notin returned
        IN /\ Len(m.products) <= call.arg.top_n
           /\ m.top_total.gross_revenue = SumOf(m.products, "gross_revenue")
           /\ m.top_total.sales_qty = SumOf(m.products, "sales_qty")
           /\ m.top_total.sales_qty + SumOf(SelectSeq(segment, excluded), "qty")
                  = m.grand_total.sales_qty
           /\ m.grand_total.gross_revenue = SumOf(segment, "gross")
           /\ FloatEq(m.top_total.sob,
                      IF m.grand_total.gross_revenue = 0 THEN Zero
                      ELSE FloatDiv(m.top_total.gross_revenue * 100,
                                    m.grand_total.gross_revenue))
           /\ FloatEq(m.grand_total.sob, FloatDiv(100, 1))

\* the top 1 of a men segment of two products has been computed
C18_Witness ==
    /\ call.fn = "calculate_top_products_by_gender_for_week"
    /\ call.arg.gender_filter = "men"
    /\ call.arg.top_n = 1
    /\ Len(ret.val.products) = 1
    /\ ret.val.grand_total.sales_qty > ret.val.top_total.sales_qty

-----------------------------------------------------------------------------
(* The multi-week calculators over the cached bundle.  A frame of the      *)
(* bundle is [labelled, rows]: labelled says whether the column iso_week   *)
(* exists, and a row is [date, iso_week], its date an ordinal.  The frames *)
(* returned by load_all_raw_data are those held by the cache, so a column  *)
(* a calculator adds stays in the bundle.                                  *)

\* iso_cal['year'].astype(str) + '-' + iso_cal['week'].astype(str).str.zfill(2)
IsoWeekLabel(ord) == WeekLabel(IsoCalendar(ord)[1], IsoCalendar(ord)[2])

\* strftime('%Y-%W'): the calendar year and the week of the year counted from
\* its first Monday, the days before it in week 00
StrftimeYW(ord) ==
    LET year == YearOfOrdinal(ord)
        yday == ord - DaysBeforeYear(year)
    IN Pad4(year) \o <<"-">> \o Pad2((yday + 6 - Weekday(ord)) \div 7)

\* if 'iso_week' not in df.columns: df['iso_week'] = the ISO label of the date
WithIsoWeek(df) ==
    IF df.labelled THEN df
    ELSE [labelled |-> TRUE,
          rows |-> [i \in DOMAIN df.rows |->
                       [df.rows[i] EXCEPT !.iso_week = IsoWeekLabel(df.rows[i].date)]]]

\* men_category_sales.py: if 'iso_week' not in qlik_df.columns: the '%Y-%W' label
WithStrftimeWeek(df) ==
    IF df.labelled THEN df
    ELSE [labelled |-> TRUE,
          rows |-> [i \in DOMAIN df.rows |->
                       [df.rows[i] EXCEPT !.iso_week = StrftimeYW(df.rows[i].date)]]]

\* base_week.split('-') as integers
SplitYear(base_week) == IntOf(SubSeq(base_week, 1, 4))

SplitWeek(base_week) == IntOf(SubSeq(base_week, 6, Len(base_week)))

\* the <<year, week>> of step i of the loop, i from 0
TargetWeek(base_week, num_weeks, i) ==
    LET target_week_num == SplitWeek(base_week) - num_weeks + 1 + i
    IN IF target_week_num <= 0
       THEN <<SplitYear(base_week) - 1, target_week_num + 52>>
       ELSE <<SplitYear(base_week), target_week_num>>

\* df[df['iso_week'] == week_str]
OfWeek(df, week_str) ==
    LET keep(row) == row.iso_week = week_str IN SelectSeq(df.rows, keep)

\* the loop over the weeks: frames are the labelled frames a week needs rows
\* of, fails the weeks whose calculation raises
RECURSIVE ForWeeksLoop(_, _, _, _, _)
ForWeeksLoop(frames, base_week, num_weeks, fails, i) ==
    IF i >= num_weeks THEN <<>>
    ELSE LET target == TargetWeek(base_week, num_weeks, i)
             week_str == WeekLabel(target[1], target[2])
             last_year_week_str == WeekLabel(target[1] - 1, target[2])
             has(w) == \A f \in frames : OfWeek(f, w) # <<>>
             rest == ForWeeksLoop(frames, base_week, num_weeks, fails, i + 1)
         IN IF ~has(week_str) \/ week_str \in fails THEN rest
            ELSE <<[week |-> week_str,
                    last_year |-> IF has(last_year_week_str) /\ last_year_week_str \notin fails
                                  THEN last_year_week_str ELSE None]>> \o rest

\* ncac_per_country.py calculate_ncac_per_country_for_weeks, from the load on:
\* the list returned and the bundle afterwards
calculate_ncac_per_country_for_weeks(base_week, num_weeks, bundle, fails) ==
    IF bundle.dema_spend.rows = <<>> \/ bundle.qlik.rows = <<>>
    THEN [val |-> <<>>, bundle |-> bundle]
    ELSE LET dema_df == WithIsoWeek(bundle.dema_spend)
             qlik_df == WithIsoWeek(bundle.qlik)
         IN [val |-> ForWeeksLoop({dema_df, qlik_df}, base_week, num_weeks, fails, 0),
             bundle |-> [qlik |-> qlik_df, dema_spend |-> dema_df]]

\* men_category_sales.py calculate_men_category_sales_for_weeks, from the load on
calculate_men_category_sales_for_weeks(base_week, num_weeks, bundle, fails) ==
    IF bundle.qlik.rows = <<>>
    THEN [val |-> <<>>, bundle |-> bundle]
    ELSE LET qlik_df == WithStrftimeWeek(bundle.qlik)
         IN [val |-> ForWeeksLoop({qlik_df}, base_week, num_weeks, fails, 0),
             bundle |-> [bundle EXCEPT !.qlik = qlik_df]]

MaxBundleRows == 2

MaxNumWeeks == 3

\* the Mondays of weeks 2020-52, 2020-53, 2021-01 and 2021-02
BundleDates ==
    {ToOrdinal(2020, 12, 21), ToOrdinal(2020, 12, 28), ToOrdinal(2021, 1, 4),
     ToOrdinal(2021, 1, 11)}

\* the frames as loaded: no iso_week column
LoadedFrames(n) ==
    {[labelled |-> FALSE,
      rows |-> [i \in DOMAIN d |-> [date |-> d[i], iso_week |-> None]]] :
        d \in UNION {[1..k -> BundleDates] : k \in 0..n}}

BundleWeeks == {WeekLabel(2021, 1), WeekLabel(2021, 2)}

\* the weeks a calculation may raise on
FailSets == {{}, {WeekLabel(2020, 53)}, {WeekLabel(2021, 1)}}

\* the directory the per-country routes pass
BundleDir == WeekDir(BaseWeek)

\* the bundle has been loaded and cached; no time passes
InitBundle ==
    /\ call = [fn |-> "none", arg |-> <<>>]
    /\ ret = Returns(<<>>)
    /\ disk = [state |-> "ok", version |-> 0, weekDirs |-> TRUE]
    /\ table1Cache \in
           {RawDataCache_set(EmptyCache, BundleDir, [qlik |-> q, dema_spend |-> d], 0) :
               q \in LoadedFrames(MaxBundleRows), d \in LoadedFrames(1)}
    /\ managerCache = EmptyCache
    /\ metricsFile = EmptyMetricsFile
    /\ now = 0
    /\ inflight = <<>>

CallNcacPerCountryForWeeks ==
    \E base_week \in BundleWeeks, num_weeks \in 1..MaxNumWeeks, fails \in FailSets :
        LET got == RawDataCache_get(table1Cache, BundleDir, Table1MaxAgeHours, now)
            r == calculate_ncac_per_country_for_weeks(base_week, num_weeks, got.data, fails)
        IN /\ got.hit
           /\ call' = [fn |-> "calculate_ncac_per_country_for_weeks",
                       arg |-> [base_week |-> base_week, num_weeks |-> num_weeks,
                                fails |-> fails]]
           /\ ret' = Returns(r.val)
           /\ table1Cache' = [got.cache EXCEPT ![BundleDir].data = r.bundle]
           /\ UNCHANGED <<disk, managerCache, metricsFile, now, inflight>>

CallMenCategorySalesForWeeks ==
    \E base_week \in BundleWeeks, num_weeks \in 1..MaxNumWeeks, fails \in FailSets :
        LET got == RawDataCache_get(table1Cache, BundleDir, Table1MaxAgeHours, now)
            r == calculate_men_category_sales_for_weeks(base_week, num_weeks, got.data, fails)
        IN /\ got.hit
           /\ call' = [fn |-> "calculate_men_category_sales_for_weeks",
                       arg |-> [base_week |-> base_week, num_weeks |-> num_weeks,
                                fails |-> fails]]
           /\ ret' = Returns(r.val)
           /\ table1Cache' = [got.cache EXCEPT ![BundleDir].data = r.bundle]
           /\ UNCHANGED <<disk, managerCache, metricsFile, now, inflight>>

NextBundle ==
    \/ CallNcacPerCountryForWeeks
    \/ CallMenCategorySalesForWeeks

SpecBundle == InitBundle /\ [][NextBundle]_vars

\* the num_weeks ISO weeks that end with base_week, oldest first
WindowOf(base_week, num_weeks) ==
    LET monday == MondayOfIsoWeek(SplitYear(base_week), SplitWeek(base_week))
    IN [i \in 1..num_weeks |-> IsoWeekLabel(monday - 7 * (num_weeks - i))]

\* the frame has a row dated in the ISO week
HasRowsOf(df, week_str) == \E i \in DOMAIN df.rows : IsoWeekLabel(df.rows[i].date) = week_str

\* C19: a per-country multi-week calculator returns, oldest to newest, one
\* element for each week of the requested window that has source data; a week
\* without data is skipped, and a week whose processing raises is left out
\* while the other weeks are still returned.
C19_OneElementPerWeekWithData ==
    call.fn = "calculate_ncac_per_country_for_weeks" =>
        LET bundle == table1Cache[BundleDir].data
            expected(w) == /\ HasRowsOf(bundle.qlik, w)
                           /\ HasRowsOf(bundle.dema_spend, w)
                           /\ w \notin call.arg.fails
        IN [i \in DOMAIN ret.val |-> ret.val[i].week]
               = SelectSeq(WindowOf(call.arg.base_week, call.arg.num_weeks), expected)

\* C20: after any sequence of calculator invocations on one cached bundle,
\* every row's iso_week label in the bundle is the zero-padded ISO-8601
\* 'YYYY-WW' of the row's date; a calculator that finds the label present
\* leaves it as it is.
C20_LabelsAreIsoWeeks ==
    \A k \in DOMAIN table1Cache :
        LET bundle == table1Cache[k].data
        IN \A df \in {bundle.qlik, bundle.dema_spend} :
               df.labelled =>
                   \A i \in DOMAIN df.rows : df.rows[i].iso_week = IsoWeekLabel(df.rows[i].date)

-----------------------------------------------------------------------------
(* The date column of a cached table.  A cell is a date (its ordinal), a   *)
(* text that is no date, or NaT; a frame is [labelled, rows] with rows of  *)
(* [date, iso_week], iso_week empty while the column does not exist.       *)

DateCell(ord) == [kind |-> "date", ord |-> ord]

BadDateText == [kind |-> "text", ord |-> 0]

NaT == [kind |-> "NaT", ord |-> 0]

\* pd.to_datetime(x, errors='coerce')
ToDatetimeCoerce(cell) == IF cell.kind = "text" THEN NaT ELSE cell

\* str of the year and week of a missing date: '<NA>-<NA>'
NaLabel == <<"<", "N", "A", ">", "-", "<", "N", "A", ">">>

\* iso_cal['year'].astype(str) + '-' + iso_cal['week'].astype(str).str.zfill(2)
IsoLabelOfCell(cell) == IF cell.kind = "date" THEN IsoWeekLabel(cell.ord) ELSE NaLabel

\* online_kpis.py and contribution.py: df[col] = to_datetime(df[col], 'coerce')
\* and df['iso_week'] = the label, on every call, when the frame is not empty
PrecomputeIsoWeek(df) ==
    IF df.rows = <<>> THEN df
    ELSE [labelled |-> TRUE,
          rows |-> [i \in DOMAIN df.rows |->
                       [date |-> ToDatetimeCoerce(df.rows[i].date),
                        iso_week |-> IsoLabelOfCell(ToDatetimeCoerce(df.rows[i].date))]]]

\* the per-country calculators: if 'iso_week' not in df.columns, the label of
\* pd.to_datetime(df[col]), which raises on a text that is no date
AddIsoWeekIfAbsent(df) ==
    IF df.labelled THEN [exc |-> "none", df |-> df]
    ELSE IF \E i \in DOMAIN df.rows : df.rows[i].date.kind = "text"
         THEN [exc |-> "ValueError", df |-> df]
         ELSE [exc |-> "none",
               df |-> [labelled |-> TRUE,
                       rows |-> [i \in DOMAIN df.rows |->
                                    [df.rows[i] EXCEPT !.iso_week =
                                        IsoLabelOfCell(df.rows[i].date)]]]]

\* online_kpis.py: weeks_to_analyze, oldest first
OnlineKpisWeeks(base_week, num_weeks) ==
    [k \in 1..num_weeks |->
        LET year == SplitYear(base_week)
            week == SplitWeek(base_week) - num_weeks + k
            weeks_in_prev_year == IsoCalendar(ToOrdinal(year - 1, 12, 31))[2]
        IN IF week <= 0 /\ weeks_in_prev_year + week >= 0
           THEN WeekLabel(year - 1, weeks_in_prev_year + week)
           ELSE IF week <= 0
           THEN Str(year - 1) \o <<"-", "-">> \o Str(0 - (weeks_in_prev_year + week))
           ELSE WeekLabel(year, week)]

\* online_kpis.py calculate_online_kpis_for_weeks, from the load on: the weeks
\* of the kpis returned and the qlik frame afterwards
OnlineKpisForWeeks(base_week, num_weeks, qlik_df) ==
    LET df == PrecomputeIsoWeek(qlik_df)
        has(w) == df.labelled /\ OfWeek(df, w) # <<>>
    IN [exc |-> "none", val |-> SelectSeq(OnlineKpisWeeks(base_week, num_weeks), has),
        df |-> df]

\* aov_new_customers_per_country.py and its per-country siblings, from the
\* load on: the labelling is outside the try of the loop
AovPerCountryForWeeks(base_week, num_weeks, qlik_df) ==
    IF qlik_df.rows = <<>> THEN [exc |-> "none", val |-> <<>>, df |-> qlik_df]
    ELSE LET r == AddIsoWeekIfAbsent(qlik_df)
             results == ForWeeksLoop({r.df}, base_week, num_weeks, {}, 0)
         IN IF r.exc # "none" THEN [exc |-> r.exc, val |-> <<>>, df |-> r.df]
            ELSE [exc |-> "none", val |-> [i \in DOMAIN results |-> results[i].week],
                  df |-> r.df]

\* table1.py filter_data_for_period on the qlik frame: works on a copy
filter_data_for_period(qlik_df, period_week) ==
    LET keep(row) == IsoLabelOfCell(ToDatetimeCoerce(row.date)) = period_week
        coerced == [i \in DOMAIN qlik_df.rows |->
                       [qlik_df.rows[i] EXCEPT !.date = ToDatetimeCoerce(qlik_df.rows[i].date)]]
    IN SelectSeq(coerced, keep)

MaxTableRows == 2

\* the Mondays of weeks 2021-01 and 2021-02, the Sunday of 2021-02, and a text
TableCells ==
    {DateCell(ToOrdinal(2021, 1, 4)), DateCell(ToOrdinal(2021, 1, 11)),
     DateCell(ToOrdinal(2021, 1, 17)), BadDateText}

TableFrames ==
    {[labelled |-> FALSE, rows |-> [i \in DOMAIN d |-> [date |-> d[i], iso_week |-> <<>>]]] :
        d \in UNION {[1..k -> TableCells] : k \in 0..MaxTableRows}}

TableBaseWeek == WeekLabel(2021, 2)

\* the bundle has been loaded and cached; no time passes
InitTables ==
    /\ call = [fn |-> "none", arg |-> <<>>]
    /\ ret = Returns(<<>>)
    /\ disk = [state |-> "ok", version |-> 0, weekDirs |-> FALSE]
    /\ table1Cache \in {RawDataCache_set(EmptyCache, RawDir, [qlik |-> q], 0) :
                            q \in TableFrames}
    /\ managerCache = EmptyCache
    /\ metricsFile = EmptyMetricsFile
    /\ now = 0
    /\ inflight = <<>>

\* one calculator runs on the cached qlik frame
RunOnTable(fn, num_weeks, r) ==
    /\ call' = [fn |-> fn, arg |-> [base_week |-> TableBaseWeek, num_weeks |-> num_weeks]]
    /\ ret' = [exc |-> r.exc, val |-> r.val]
    /\ table1Cache' = [table1Cache EXCEPT ![RawDir].data.qlik = r.df]
    /\ UNCHANGED <<disk, managerCache, metricsFile, now, inflight>>

CallOnlineKpisForWeeks ==
    \E num_weeks \in {1, 2} :
        RunOnTable("calculate_online_kpis_for_weeks", num_weeks,
                   OnlineKpisForWeeks(TableBaseWeek, num_weeks, table1Cache[RawDir].data.qlik))

CallAovPerCountryForWeeks ==
    \E num_weeks \in {1, 2} :
        RunOnTable("calculate_aov_new_customers_per_country_for_weeks", num_weeks,
                   AovPerCountryForWeeks(TableBaseWeek, num_weeks,
                                         table1Cache[RawDir].data.qlik))

CallFilterDataForPeriod ==
    \E period_week \in {WeekLabel(2021, 1), TableBaseWeek} :
        /\ call' = [fn |-> "filter_data_for_period", arg |-> [period_week |-> period_week]]
        /\ ret' = Returns(filter_data_for_period(table1Cache[RawDir].data.qlik, period_week))
        /\ UNCHANGED <<disk, table1Cache, managerCache, metricsFile, now, inflight>>

NextTables ==
    \/ CallOnlineKpisForWeeks
    \/ CallAovPerCountryForWeeks
    \/ CallFilterDataForPeriod

SpecTables == InitTables /\ [][NextTables]_vars

\* C21: a calculator run leaves the cached tables unchanged, apart from the
\* one-time addition of the ISO-week label column: the dates of the rows are
\* the same before and after, and a label once written stays as it is.
C21_CachedTablesUnchanged ==
    [][\A k \in DOMAIN table1Cache :
          LET before == table1Cache[k].data.qlik
              after == table1Cache'[k].data.qlik
          IN /\ Len(after.rows) = Len(before.rows)
             /\ \A i \in DOMAIN before.rows : after.rows[i].date = before.rows[i].date
             /\ before.labelled => after = before]_vars

\* C24: with a row whose date cannot be parsed, deriving the labels does not
\* fail: the row matches no week, and a multi-week calculator still returns
\* the weeks of its window that the remaining rows fall in.
C24_UnparseableDateIsSkipped ==
    call.fn \in {"calculate_online_kpis_for_weeks",
                 "calculate_aov_new_customers_per_country_for_weeks"} =>
        LET qlik_df == table1Cache[RawDir].data.qlik
            has(w) == \E i \in DOMAIN qlik_df.rows :
                          /\ qlik_df.rows[i].date.kind = "date"
                          /\ IsoWeekLabel(qlik_df.rows[i].date.ord) = w
            window == [k \in 1..call.arg.num_weeks |->
                          WeekLabel(2021, 2 - call.arg.num_weeks + k)]
        IN /\ ret.exc = "none"
           /\ ret.val = SelectSeq(window, has)

-----------------------------------------------------------------------------
\* the keys whose entry a step wrote: each parse from disk ends with a set
ParsedKeys(before, after) ==
    {k \in DOMAIN after : k \notin DOMAIN before \/ after[k] # before[k]}

\* C22: during one calculate_all_metrics call the sources are parsed from disk
\* at most once: the first family loads them through the raw-data cache and
\* every later family of the batch hits the cache on the same key.
C22_BatchParsesOnce ==
    [][call'.fn = "calculate_all_metrics" =>
          Cardinality(ParsedKeys(table1Cache, table1Cache')) <= 1]_vars

-----------------------------------------------------------------------------
(* The metrics cache under concurrent callers.  Each caller is a thread of *)
(* the request pool; set and invalidate read the cache file, change their  *)
(* private copy and write it back, and other callers run between the read  *)
(* and the write.  get reads the file once and clear unlinks it, so each   *)
(* is one step.  inflight maps a thread to the local state of its call:    *)
(* the copy it read, or the invalidate or clear it completed last and the  *)
(* instant that call began.  The clock passes on its own.                  *)

Threads == {"t1", "t2"}

MaxRaceClock == 1

\* no call is in progress
NoCalls == [th \in {} |-> [op |-> "none", pc |-> "done"]]

Idle(th) == IF th \in DOMAIN inflight THEN inflight[th].pc = "done" ELSE TRUE

\* the thread th moves to the local state s
Local(th, s) == [t \in DOMAIN inflight \cup {th} |-> IF t = th THEN s ELSE inflight[t]]

\* the thread th has returned from a call that leaves nothing to remember
Returned(th) == [t \in DOMAIN inflight \ {th} |-> inflight[t]]

InitMetricsRace ==
    /\ call = [fn |-> "none", arg |-> <<>>]
    /\ ret = Returns(None)
    /\ disk = [state |-> "ok", version |-> 0, weekDirs |-> FALSE]
    /\ table1Cache = EmptyCache
    /\ managerCache = EmptyCache
    /\ metricsFile = EmptyMetricsFile
    /\ now = 0
    /\ inflight = NoCalls

\* MetricsCache.set up to json.load: the thread holds the file's content
RaceSetRead ==
    \E th \in Threads, req \in SetRequests, periods \in SetPeriods :
        /\ Idle(th)
        /\ inflight' = Local(th, [op |-> "set", pc |-> "read", base_week |-> req.base_week,
                                  periods |-> periods, data |-> req.data,
                                  cache_data |-> metricsFile, began |-> now])
        /\ UNCHANGED <<call, ret, disk, table1Cache, managerCache, metricsFile, now>>

\* MetricsCache.set from the key on: the copy plus the new entry replaces the file
RaceSetWrite ==
    \E th \in DOMAIN inflight :
        LET s == inflight[th]
        IN /\ s.op = "set" /\ s.pc = "read"
           /\ call' = [fn |-> "MetricsCache.set",
                       arg |-> [base_week |-> s.base_week, periods |-> s.periods,
                                data |-> s.data]]
           /\ ret' = Returns(None)
           /\ metricsFile' = MetricsCache_set(s.cache_data, s.base_week, s.periods, s.data, now)
           /\ inflight' = Returned(th)
           /\ UNCHANGED <<disk, table1Cache, managerCache, now>>

\* MetricsCache.invalidate up to json.load
RaceInvalidateRead ==
    \E th \in Threads, base_week \in MetricsWeeks :
        /\ Idle(th)
        /\ inflight' = Local(th, [op |-> "invalidate", pc |-> "read", base_week |-> base_week,
                                  periods |-> <<>>, data |-> None,
                                  cache_data |-> metricsFile, began |-> now])
        /\ UNCHANGED <<call, ret, disk, table1Cache, managerCache, metricsFile, now>>

\* MetricsCache.invalidate from keys_to_remove on: the copy without the week's
\* entries replaces the file
RaceInvalidateWrite ==
    \E th \in DOMAIN inflight :
        LET s == inflight[th]
        IN /\ s.op = "invalidate" /\ s.pc = "read"
           /\ call' = [fn |-> "MetricsCache.invalidate", arg |-> [base_week |-> s.base_week]]
           /\ ret' = Returns(None)
           /\ metricsFile' = MetricsCache_invalidate(s.cache_data, s.base_week)
           /\ inflight' = Local(th, [s EXCEPT !.pc = "done", !.cache_data = EmptyMetricsFile])
           /\ UNCHANGED <<disk, table1Cache, managerCache, now>>

\* MetricsCache.clear
RaceClear ==
    \E th \in Threads :
        /\ Idle(th)
        /\ call' = [fn |-> "MetricsCache.clear", arg |-> <<>>]
        /\ ret' = Returns(None)
        /\ metricsFile' = MetricsCache_clear(metricsFile)
        /\ inflight' = Local(th, [op |-> "clear", pc |-> "done", base_week |-> <<>>,
                                  periods |-> <<>>, data |-> None,
                                  cache_data |-> EmptyMetricsFile, began |-> now])
        /\ UNCHANGED <<disk, table1Cache, managerCache, now>>

\* MetricsCache.get
RaceGet ==
    \E base_week \in MetricsWeeks, periods \in SetPeriods :
        /\ call' = [fn |-> "MetricsCache.get",
                    arg |-> [base_week |-> base_week, periods |-> periods]]
        /\ ret' = Returns(MetricsCache_get(metricsFile, base_week, periods, now))
        /\ UNCHANGED <<disk, table1Cache, managerCache, metricsFile, now, inflight>>

RaceTick ==
    /\ now < MaxRaceClock
    /\ now' = now + 1
    /\ UNCHANGED <<call, ret, disk, table1Cache, managerCache, metricsFile, inflight>>

NextMetricsRace ==
    \/ RaceSetRead
    \/ RaceSetWrite
    \/ RaceInvalidateRead
    \/ RaceInvalidateWrite
    \/ RaceClear
    \/ RaceGet
    \/ RaceTick

SpecMetricsRace == InitMetricsRace /\ [][NextMetricsRace]_vars

\* the invalidate(w) and clear() calls completed so far that cover week w
CompletedFor(w) ==
    {th \in DOMAIN inflight :
        /\ inflight[th].pc = "done"
        /\ (inflight[th].op = "clear" \/ inflight[th].base_week = w)}

\* C23: whatever the interleaving of set, get, invalidate and clear, a get
\* that hits returns data stored for its own base week and periods, and never
\* an entry for week w stored before an invalidate(w) or a clear() that has
\* completed began.
C23_NoStaleEntryAfterInvalidate ==
    [][(call'.fn = "MetricsCache.get" /\ ret'.val # None
            /\ UNCHANGED <<metricsFile, now, inflight>>) =>
          LET cache_key == _get_cache_key(call'.arg.base_week, call'.arg.periods, now)
              cached_item == metricsFile[cache_key]
          IN /\ cached_item.base_week = call'.arg.base_week
             /\ Sorted(cached_item.periods) = Sorted(call'.arg.periods)
             /\ \A th \in CompletedFor(call'.arg.base_week) :
                    ~(cached_item.timestamp < inflight[th].began)
      ]_vars

-----------------------------------------------------------------------------
(* The raw-data cache of metrics/table1.py under concurrent callers.  The  *)
(* dict is shared by the threads of the request pool; one dict operation   *)
(* is atomic, and other threads run between the membership test, the       *)
(* lookup and the del of one get.  set and clear are one dict operation.   *)

\* the bundles load_all_raw_data builds from a directory
BundlesOf(data_path) == IF data_path = RawDir THEN {"b1", "b2"} ELSE {"b3"}

InitRawRace ==
    /\ call = [fn |-> "none", arg |-> <<>>]
    /\ ret = Returns(None)
    /\ disk = [state |-> "ok", version |-> 0, weekDirs |-> FALSE]
    /\ table1Cache = EmptyCache
    /\ managerCache = EmptyCache
    /\ metricsFile = EmptyMetricsFile
    /\ now = 0
    /\ inflight = NoCalls

\* the thread th returns r from get(data_path)
RawRaceReturn(th, data_path, r) ==
    /\ call' = [fn |-> "RawDataCache.get", arg |-> [data_path |-> data_path]]
    /\ ret' = r
    /\ inflight' = Returned(th)

\* RawDataCache.get: if data_path in self.cache
RawRaceGetTest ==
    \E th \in Threads, data_path \in CacheKeys :
        /\ Idle(th)
        /\ IF data_path \in DOMAIN table1Cache
           THEN /\ inflight' = Local(th, [op |-> "get", pc |-> "lookup", data_path |-> data_path])
                /\ UNCHANGED <<call, ret>>
           ELSE RawRaceReturn(th, data_path, Returns(None))
        /\ UNCHANGED <<disk, table1Cache, managerCache, metricsFile, now>>

\* RawDataCache.get: entry = self.cache[data_path] and the age test
RawRaceGetLookup ==
    \E th \in DOMAIN inflight :
        LET s == inflight[th]
        IN /\ s.op = "get" /\ s.pc = "lookup"
           /\ IF s.data_path \notin DOMAIN table1Cache
              THEN RawRaceReturn(th, s.data_path, Raises("KeyError"))
              ELSE IF now - table1Cache[s.data_path].timestamp < Table1MaxAgeHours
              THEN RawRaceReturn(th, s.data_path, Returns(table1Cache[s.data_path].data))
              ELSE /\ inflight' = Local(th, [s EXCEPT !.pc = "del"])
                   /\ UNCHANGED <<call, ret>>
           /\ UNCHANGED <<disk, table1Cache, managerCache, metricsFile, now>>

\* RawDataCache.get: del self.cache[data_path], then return None
RawRaceGetDel ==
    \E th \in DOMAIN inflight :
        LET s == inflight[th]
        IN /\ s.op = "get" /\ s.pc = "del"
           /\ IF s.data_path \in DOMAIN table1Cache
              THEN /\ RawRaceReturn(th, s.data_path, Returns(None))
                   /\ table1Cache' = [k \in DOMAIN table1Cache \ {s.data_path} |-> table1Cache[k]]
              ELSE /\ RawRaceReturn(th, s.data_path, Raises("KeyError"))
                   /\ UNCHANGED table1Cache
           /\ UNCHANGED <<disk, managerCache, metricsFile, now>>

\* RawDataCache.set
RawRaceSet ==
    \E data_path \in CacheKeys :
        \E data \in BundlesOf(data_path) :
            /\ call' = [fn |-> "RawDataCache.set",
                        arg |-> [data_path |-> data_path, data |-> data]]
            /\ ret' = Returns(None)
            /\ table1Cache' = RawDataCache_set(table1Cache, data_path, data, now)
            /\ UNCHANGED <<disk, managerCache, metricsFile, now, inflight>>

NextRawRace ==
    \/ RawRaceGetTest
    \/ RawRaceGetLookup
    \/ RawRaceGetDel
    \/ RawRaceSet
    \/ RawClear
    \/ Tick

SpecRawRace == InitRawRace /\ [][NextRawRace]_vars

\* C30: whatever the interleaving of get, set and clear, also when two gets
\* see the same expired entry, a get raises nothing and returns a miss or a
\* bundle that a set stored under its key.
C30_ConcurrentGetNeverRaises ==
    call.fn = "RawDataCache.get" =>
        /\ ret.exc = "none"
        /\ ret.val = None \/ ret.val \in BundlesOf(call.arg.data_path)

-----------------------------------------------------------------------------
(* The windows of the multi-week families side by side: the initial state  *)
(* draws a base week and a number of weeks, one action per family returns  *)
(* the week labels its loop generates, oldest first.                       *)

MaxWindowWeeks == 3

WindowYears == {2020, 2021, 2025}

WindowInputs ==
    {[base_week |-> WeekLabel(y, w), num_weeks |-> n] :
        y \in WindowYears, w \in {1, 2, 3, 30, 52}, n \in 1..MaxWindowWeeks}
        \cup {[base_week |-> WeekLabel(2020, 53), num_weeks |-> n] : n \in 1..MaxWindowWeeks}

\* the per-country families: week_str of each step of the loop
PerCountryWeeks(base_week, num_weeks) ==
    [k \in 1..num_weeks |->
        LET target == TargetWeek(base_week, num_weeks, k - 1)
        IN WeekLabel(target[1], target[2])]

\* contribution.py: weeks_to_analyze, the loop of online_kpis.py once more
ContributionWeeks(base_week, num_weeks) == OnlineKpisWeeks(base_week, num_weeks)

\* markets.py: weeks_to_analyze after weeks_to_analyze[::-1]
TopMarketsWeeks(base_week, num_weeks) ==
    LET weeks == MarketsWeeks(MatchYear(base_week), MatchWeek(base_week), num_weeks)
    IN [k \in 1..num_weeks |-> weeks[num_weeks + 1 - k]]

InitWindow ==
    /\ call \in {[fn |-> "none", arg |-> i] : i \in WindowInputs}
    /\ ret = Returns(<<>>)
    /\ disk = [state |-> "ok", version |-> 0, weekDirs |-> FALSE]
    /\ table1Cache = EmptyCache
    /\ managerCache = EmptyCache
    /\ metricsFile = EmptyMetricsFile
    /\ now = 0
    /\ inflight = <<>>

WindowOfFamily(fn, weeks) ==
    /\ call.fn = "none"
    /\ call' = [fn |-> fn, arg |-> call.arg]
    /\ ret' = Returns(weeks)
    /\ UNCHANGED <<disk, table1Cache, managerCache, metricsFile, now, inflight>>

CallPerCountryWindow ==
    WindowOfFamily("calculate_aov_new_customers_per_country_for_weeks",
                   PerCountryWeeks(call.arg.base_week, call.arg.num_weeks))

CallOnlineKpisWindow ==
    WindowOfFamily("calculate_online_kpis_for_weeks",
                   OnlineKpisWeeks(call.arg.base_week, call.arg.num_weeks))

CallContributionWindow ==
    WindowOfFamily("calculate_contribution_for_weeks",
                   ContributionWeeks(call.arg.base_week, call.arg.num_weeks))

CallTopMarketsWindow ==
    WindowOfFamily("calculate_top_markets_for_weeks",
                   TopMarketsWeeks(call.arg.base_week, call.arg.num_weeks))

NextWindow ==
    \/ CallPerCountryWindow
    \/ CallOnlineKpisWindow
    \/ CallContributionWindow
    \/ CallTopMarketsWindow

SpecWindow == InitWindow /\ [][NextWindow]_vars

\* C25: for a valid base week and a number of weeks, every multi-week family
\* analyses the same window, the consecutive ISO weeks that end at the base
\* week, each label a zero-padded ISO week, also across a year boundary and
\* a 53-week year.
C25_FamiliesShareTheIsoWindow ==
    call.fn # "none" => ret.val = WindowOf(call.arg.base_week, call.arg.num_weeks)

-----------------------------------------------------------------------------
(* The two week filters of table1.py on one row.  The Date of a row is a   *)
(* timestamp [ord, time]: a day and a time of that day, midnight for a     *)
(* value that is a bare date.  The initial state draws the period week and *)
(* the row's timestamp, each action tells whether its filter keeps the row.*)

TimesOfDay == {"00:00", "12:00"}

\* the order of timestamps
Instant(ts) == 2 * ts.ord + (IF ts.time = "00:00" THEN 0 ELSE 1)

\* pd.to_datetime of a date string: midnight of that day
Midnight(s) == [ord |-> ParseDate(s), time |-> "00:00"]

\* (df[col] >= start_dt) & (df[col] <= end_dt) for one row
DateRangeMask(ts, start_date, end_date) ==
    /\ Instant(ts) >= Instant(Midnight(start_date))
    /\ Instant(ts) <= Instant(Midnight(end_date))

\* calculate_table1_metrics: the mask built from get_week_date_range(period_week)
Table1WeekMask(ts, period_week) ==
    LET date_range == get_week_date_range(period_week).val
    IN DateRangeMask(ts, date_range.start, date_range.end)

\* filter_data_for_period: qlik_data['ISO_Week_Str'] == period_week for one row
IsoWeekStrMask(ts, period_week) == IsoWeekLabel(ts.ord) = period_week

FilterWeeks == {<<2020, 53>>, <<2021, 1>>, <<2025, 42>>}

\* the days from the Sunday before the week to the Monday after it
FilterInputs ==
    {[period_week |-> WeekLabel(w[1], w[2]),
      ts |-> [ord |-> MondayOfIsoWeek(w[1], w[2]) + d, time |-> t]] :
        w \in FilterWeeks, d \in -1..7, t \in TimesOfDay}

InitFilters ==
    /\ call \in {[fn |-> "none", arg |-> i] : i \in FilterInputs}
    /\ ret = Returns(<<>>)
    /\ disk = [state |-> "ok", version |-> 0, weekDirs |-> FALSE]
    /\ table1Cache = EmptyCache
    /\ managerCache = EmptyCache
    /\ metricsFile = EmptyMetricsFile
    /\ now = 0
    /\ inflight = <<>>

CallFilterByIsoWeek ==
    /\ call.fn = "none"
    /\ call' = [fn |-> "filter_data_for_period", arg |-> call.arg]
    /\ ret' = Returns(IsoWeekStrMask(call.arg.ts, call.arg.period_week))
    /\ UNCHANGED <<disk, table1Cache, managerCache, metricsFile, now, inflight>>

CallFilterByWeekDates ==
    /\ call.fn = "none"
    /\ call' = [fn |-> "calculate_table1_metrics", arg |-> call.arg]
    /\ ret' = Returns(Table1WeekMask(call.arg.ts, call.arg.period_week))
    /\ UNCHANGED <<disk, table1Cache, managerCache, metricsFile, now, inflight>>

NextFilters ==
    \/ CallFilterByIsoWeek
    \/ CallFilterByWeekDates

SpecFilters == InitFilters /\ [][NextFilters]_vars

\* C26: for a valid ISO week w, each of the two filters keeps a row exactly
\* when the ISO week of the row's date is w, whatever the time of day of the
\* row, the Sunday that ends the week included; so both keep the same rows.
C26_FiltersKeepTheIsoWeek ==
    call.fn # "none" =>
        ret.val = (IsoCalendar(call.arg.ts.ord)
                       = <<WfYear(call.arg.period_week), WfWeek(call.arg.period_week)>>)

-----------------------------------------------------------------------------
(* The periods derived from a base week that validate_iso_week accepts     *)

\* validate_iso_week returns True for the argument of the last call
Accepted == validate_iso_week(call.arg).val

PeriodKeys == {"actual", "last_week", "last_year", "year_2023"}

\* C27: for a base week that validate_iso_week accepts, every entry of
\* get_periods_for_week is a valid ISO week, week 53 only in a year that has
\* 53 ISO weeks, and the dates get_week_date_range gives for the entry lie
\* in the entry's ISO year and week.
C27_EveryPeriodIsAnIsoWeek ==
    (call.fn = "get_periods_for_week" /\ Accepted) =>
        /\ ret.exc = "none"
        /\ \A k \in PeriodKeys :
               LET entry == ret.val[k]
                   date_range == get_week_date_range(entry).val
               IN /\ WellFormedIsoWeek(entry)
                  /\ IsIsoWeek(WfYear(entry), WfWeek(entry))
                  /\ IsoCalendar(ParseDate(date_range.start)) = <<WfYear(entry), WfWeek(entry)>>
                  /\ IsoCalendar(ParseDate(date_range.end)) = <<WfYear(entry), WfWeek(entry)>>

\* C28: for a base week that validate_iso_week accepts, each YTD window of
\* get_ytd_periods_for_week starts on or before the day it ends, also when
\* the base week ends before April 1 of its year.
C28_YtdWindowsAreNotEmpty ==
    (call.fn = "get_ytd_periods_for_week" /\ Accepted) =>
        /\ ret.exc = "none"
        /\ \A k \in {"ytd_actual", "ytd_last_year", "ytd_2023"} :
               ParseDate(ret.val[k].start) <= ParseDate(ret.val[k].end)

\* C29: for a base week that validate_iso_week accepts, a single-digit week
\* included, the actual entry of get_periods_for_week is the zero-padded
\* label YYYY-WW, the label the week filter gives to the rows of that week,
\* so the filter keeps those rows for the actual period.
C29_ActualIsZeroPadded ==
    (call.fn = "get_periods_for_week" /\ Accepted) =>
        LET year == MatchYear(call.arg)
            week == MatchWeek(call.arg)
        IN /\ ret.exc = "none"
           /\ ret.val.actual = WeekLabel(year, week)
           /\ \A d \in 0..6 :
                  IsoWeekStrMask([ord |-> MondayOfIsoWeek(year, week) + d, time |-> "00:00"],
                                 ret.val.actual)

===============================================================================
